---- MODULE Spec2Model ----
(***************************************************************************)
(* The partition extraction pipeline of extract_utils (extract.py) and its *)
(* command line entry point, as a state machine over a dump directory.     *)
(*                                                                         *)
(* Strings.  The code cuts names at '.' (file_name_to_partition, splitext, *)
(* endswith) and at '_' (unslot_partition, the _sparsechunk suffix), so a  *)
(* name is modelled as the sequence of its '.'-separated components, each  *)
(* the sequence of its '_'-separated tokens:                               *)
(*     "system_ext.img"  is  << <<"system", "ext">>, <<"img">> >>          *)
(***************************************************************************)
EXTENDS Integers, Sequences, FiniteSets, TLC

VARIABLES
    src,              \* the source argument: [kind, members], fixed for all runs
    args,             \* the command line: [partitions], fixed for all runs
    ctx,              \* the ExtractCtx of the current run
    dump_exists,      \* whether the dump directory exists on disk
    files,            \* regular files directly inside dump_dir: name -> content
    dirs,             \* directories below dump_dir: set of paths (sequences of names)
    pc,               \* position of the current run
    wanted,           \* the local extract_partitions of a find-alternates loop
    resumed,          \* FALSE in the first run, TRUE in the re-run
    entry_partitions, \* ctx.extract_partitions when extract_image was entered
    helpers,          \* helper processes spawned by the current run
    trace,            \* the stages the current run has begun, in order
    batches,          \* the probe batches of the current run: [stage, wanted, ret_success]
    err,              \* the error that ended the current run, "" when none
    merged,           \* the <p>.new.dat files sdat2img merged in the current run
    first,            \* what the first run left behind: [pc, files, dirs, failed]
    failed,           \* helpers of the current run that exited non-zero: [stage, input_id]
    cmds,             \* the simg2img command lines of the current run: [input_id, argv]
    fn,               \* the pure-function harness: inputs and results
    zip,              \* extract_zip on its own: member list, ctx, worker tasks
    par,              \* process_cmds_in_parallel on its own: batch, processes, results
    dd,               \* get_dump_dir on its own: paths, the scope, how it was left
    lay,              \* the layout normaliser on its own: the dump dir it is given
    hook,             \* run_extract_fns on its own: registry, entries, calls, removals
    cli               \* the command line on its own: arguments, context, prune

vars == <<src, args, ctx, dump_exists, files, dirs, pc, wanted, resumed,
          entry_partitions, helpers, trace, batches, err, merged, first, failed, cmds,
          fn, zip, par, dd, lay, hook, cli>>

pipe_vars == <<src, args, ctx, dump_exists, files, dirs, pc, wanted, resumed,
               entry_partitions, helpers, trace, batches, err, merged, first, failed,
               cmds>>

(***************************************************************************)
(* Bounds of the model.                                                    *)
(***************************************************************************)
MaxFiles == 2      \* files in the source (archive members or directory entries)
MaxWanted == 2     \* length of the wanted list given to find_alternate_partitions
MaxMembers == 2    \* members of the archive given to extract_zip on its own
MaxBatch == 3      \* commands of the batch given to process_cmds_in_parallel on its own

(***************************************************************************)
(* Names.                                                                  *)
(***************************************************************************)
Name(tokens) == << tokens >>

odm == Name(<<"odm">>)
product == Name(<<"product">>)
system == Name(<<"system">>)
system_ext == Name(<<"system", "ext">>)
vendor == Name(<<"vendor">>)
boot == Name(<<"boot">>)
system_root == Name(<<"system", "root">>)

Range(s) == {s[i] : i \in 1..Len(s)}

\* a comparison of the lengths that always fails
NoDup_never(s) == FALSE

NoDup(s) == \A i, j \in 1..Len(s) : s[i] = s[j] => i = j

\* Every list that holds each element of S once.
Orderings(S) == {s \in [1..Cardinality(S) -> S] : Range(s) = S}

\* f'{name}.{ext}'
WithExt(name, ext) == Append(name, <<ext>>)

\* f'{partition}{slot}', the slot '' or '_a' given by its tokens <<>> or <<"a">>
WithSlot(name, slot) == [name EXCEPT ![Len(name)] = @ \o slot]

\* str.endswith('.' + suffix): the last components of the name are the suffix's
EndsWith(name, suffix) ==
    /\ Len(name) > Len(suffix)
    /\ SubSeq(name, Len(name) - Len(suffix) + 1, Len(name)) = suffix

\* path.splitext(name)[0]
splitext(name) == IF Len(name) > 1 THEN SubSeq(name, 1, Len(name) - 1) ELSE name

DEFAULT_EXTRACTED_PARTITIONS == <<odm, product, system, system_ext, vendor>>

ALTERNATE_PARTITION_PATH_MAP ==
    << [partition |-> product,    path |-> <<system, product>>],
       [partition |-> system_ext, path |-> <<system, system_ext>>],
       [partition |-> vendor,     path |-> <<system, vendor>>],
       [partition |-> odm,        path |-> <<vendor, odm>>] >>

\* a lookup in a map that also places system below boot
AlternatePath_one_more_link(partition) ==
    CASE partition = product -> <<system, product>>
      [] partition = system_ext -> <<system, system_ext>>
      [] partition = vendor -> <<system, vendor>>
      [] partition = odm -> <<vendor, odm>>
      [] partition = system -> <<boot, system>>
      [] OTHER -> <<>>

\* ALTERNATE_PARTITION_PATH_MAP.get(partition), <<>> standing for None
AlternatePath(partition) ==
    LET I == {i \in 1..Len(ALTERNATE_PARTITION_PATH_MAP) :
                ALTERNATE_PARTITION_PATH_MAP[i].partition = partition}
    IN IF I = {} THEN <<>>
       ELSE ALTERNATE_PARTITION_PATH_MAP[CHOOSE i \in I : TRUE].path

BROTLI_EXT == << <<"new">>, <<"dat">>, <<"br">> >>
SPARSE_DATA_EXT == << <<"new">>, <<"dat">> >>
TRANSFER_LIST_EXT == << <<"transfer">>, <<"list">> >>
SPARSE_CHUNK_SUFFIX == "sparsechunk"
PAYLOAD_BIN_FILE_NAME == << <<"payload">>, <<"bin">> >>
SUPER_PARTITION_NAME == Name(<<"super">>)
SUPER_IMG_NAME == << <<"super">>, <<"img">> >>

\* file_name.split('.', 1)[0]
file_name_to_partition(file_name) == << file_name[1] >>

\* The last component of a name that holds an underscore, 0 when none does.
LastUnderscore(name) ==
    LET S == {i \in 1..Len(name) : Len(name[i]) > 1}
    IN IF S = {} THEN 0 ELSE CHOOSE i \in S : \A j \in S : j <= i

\* Slot stripping as specified: only a trailing _a or _b is dropped.
strip_slot(partition_slot) ==
    LET last == partition_slot[Len(partition_slot)]
    IN IF Len(last) > 1 /\ last[Len(last)] \in {"a", "b"}
       THEN [partition_slot EXCEPT ![Len(partition_slot)] = SubSeq(last, 1, Len(last) - 1)]
       ELSE partition_slot

\* partition_slot.rsplit('_', 1)[0]: all that precedes the last underscore
unslot_partition(partition_slot) ==
    LET i == LastUnderscore(partition_slot)
    IN IF i = 0 THEN partition_slot
       ELSE Append(SubSeq(partition_slot, 1, i - 1),
                   SubSeq(partition_slot[i], 1, Len(partition_slot[i]) - 1))

RECURSIVE find_alternate_loop(_, _, _, _)
find_alternate_loop(extract_partitions, found_partitions, i, new_extract_partitions) ==
    IF i > Len(extract_partitions) THEN new_extract_partitions
    ELSE LET partition == extract_partitions[i]
             alternate_partition_path == AlternatePath(partition)
             skip == \/ partition \in found_partitions
                     \/ alternate_partition_path = <<>>
                     \/ alternate_partition_path[1] \in found_partitions
                     \/ alternate_partition_path[1] \in Range(new_extract_partitions)
         IN find_alternate_loop(
                extract_partitions, found_partitions, i + 1,
                IF skip THEN new_extract_partitions
                ELSE Append(new_extract_partitions, alternate_partition_path[1]))

\* found_partitions is only tested for membership: a set here
find_alternate_partitions(extract_partitions, found_partitions) ==
    find_alternate_loop(extract_partitions, found_partitions, 1, <<>>)

(***************************************************************************)
(* File contents.  enc is the outer encoding of the bytes, fmt the format  *)
(* of the image they carry, of the partition label the image was built     *)
(* for, parts the labels a container (payload, super) holds and tree the   *)
(* directories (relative paths) a filesystem image holds.                  *)
(***************************************************************************)
Content(enc, fmt, of, parts, tree) ==
    [enc |-> enc, fmt |-> fmt, of |-> of, parts |-> parts, tree |-> tree]

\* The format the magic bytes of a file show (the table of find_*_paths).
Magic(content) ==
    CASE content.enc = "sparse" -> "sparse_raw"
      [] content.enc = "raw" -> content.fmt
      [] OTHER -> "none"

\* The image a container hands out for a label: a plain ext4 image.
InnerImage(label) == Content("raw", "ext4", label, {}, {})

(***************************************************************************)
(* The dump directory: files (name -> content) and dirs (set of paths).    *)
(***************************************************************************)
NoFiles == [n \in {} |-> Content("raw", "unknown", <<>>, {}, {})]

Put(fs, name, content) ==
    [n \in DOMAIN fs \cup {name} |-> IF n = name THEN content ELSE fs[n]]

\* remove_file_paths that deletes nothing
RemoveNothing(fs, names) == fs

Remove(fs, names) == [n \in DOMAIN fs \ names |-> fs[n]]

\* fs overwritten by every file of more
Overlay(fs, more) ==
    [n \in DOMAIN fs \cup DOMAIN more |-> IF n \in DOMAIN more THEN more[n] ELSE fs[n]]

\* os.rename(src, dst) of regular files: dst is replaced
Rename(fs, from, to) == Put(Remove(fs, {from}), to, fs[from])

IsPrefix(p, q) == Len(p) <= Len(q) /\ SubSeq(q, 1, Len(p)) = p

\* path.isdir(path.join(dump_dir, *path))
IsDir(ds, path) == path \in ds

\* path.exists(path.join(dump_dir, name)) for a top-level name
Exists(fs, ds, name) == name \in DOMAIN fs \/ <<name>> \in ds

\* os.rename of a directory with all it holds
MoveTree(ds, from, to) ==
    {IF IsPrefix(from, d) THEN to \o SubSeq(d, Len(from) + 1, Len(d)) ELSE d : d \in ds}

\* The directory a filesystem dump leaves at dump_dir/<name>
Dumped(name, content) == {<<name>>} \cup {<<name>> \o t : t \in content.tree}

(***************************************************************************)
(* The magic scanner.                                                      *)
(***************************************************************************)
\* find_files with a partition list: ext = <<>> and magic = "any" stand for None
find_files(extract_partitions, fs, magic, ext) ==
    {file \in DOMAIN fs :
        /\ \/ file_name_to_partition(file) \in Range(extract_partitions)
           \/ file \in Range(extract_partitions)
        /\ ext = <<>> \/ EndsWith(file, ext)
        /\ magic = "any" \/ Magic(fs[file]) = magic}

find_sparse_raw_paths(extract_partitions, fs) ==
    find_files(extract_partitions, fs, "sparse_raw", <<>>)

find_erofs_paths(extract_partitions, fs) ==
    find_files(extract_partitions, fs, "erofs", <<>>)

find_ext4_paths(extract_partitions, fs) ==
    find_files(extract_partitions, fs, "ext4", <<>>)

find_payload_paths(extract_partitions, fs) ==
    find_files(extract_partitions, fs, "payload", <<>>)

find_super_img_paths(extract_partitions, fs) ==
    find_files(extract_partitions, fs, "super", <<>>)

find_brotli_paths(extract_partitions, fs) ==
    find_files(extract_partitions, fs, "any", BROTLI_EXT)

find_sparse_data_paths(extract_partitions, fs) ==
    find_files(extract_partitions, fs, "any", SPARSE_DATA_EXT)

(***************************************************************************)
(* The archive filter.  A path is the sequence of its '/'-separated names; *)
(* file_paths is a list of paths (zip namelist, os.scandir).  No           *)
(* extract_fns are registered by the command line entry point, so the      *)
(* pattern rule of _filter_files selects nothing.                          *)
(***************************************************************************)
\* path.basename(file_path)
basename(file_path) == file_path[Len(file_path)]

\* The branch of the loop body of _filter_files that takes a path, "none" if none
filter_rule(extract_partitions, extract_file_names, file_path) ==
    LET file_name == basename(file_path)
    IN CASE file_name \in Range(extract_partitions) -> "name"
         [] file_name_to_partition(file_name) \in Range(extract_partitions) -> "partition"
         [] file_name \in Range(extract_file_names) -> "file"
         [] OTHER -> "none"

\* _filter_files: the selected paths, in list order, and the partitions added to
\* found_partitions
filter_files_pass(extract_partitions, extract_file_names, file_paths) ==
    LET rule(p) == filter_rule(extract_partitions, extract_file_names, p)
        I == 1..Len(file_paths)
    IN [paths |-> SelectSeq(file_paths, LAMBDA p : rule(p) # "none"),
        found |-> {basename(file_paths[i]) : i \in {k \in I : rule(file_paths[k]) = "name"}}
                  \cup {file_name_to_partition(basename(file_paths[i])) :
                            i \in {k \in I : rule(file_paths[k]) = "partition"}}]

RECURSIVE filter_files_loop(_, _, _, _, _, _)
\* the while loop of filter_files; passes lists the extract_partitions of each
\* iteration with the names of it that selected a path
filter_files_loop(extract_partitions, extract_file_names, found_partitions, found_file_paths, file_paths, passes) ==
    IF extract_partitions = <<>>
    THEN [paths |-> found_file_paths, found |-> found_partitions, passes |-> passes]
    ELSE LET pass == filter_files_pass(extract_partitions, extract_file_names, file_paths)
             found == found_partitions \cup pass.found
         IN filter_files_loop(
                find_alternate_partitions(extract_partitions, found),
                <<>>, found, found_file_paths \o pass.paths, file_paths,
                Append(passes,
                       [wanted |-> extract_partitions,
                        ret_success |-> SelectSeq(extract_partitions,
                                                  LAMBDA q : q \in pass.found)]))

filter_files(partition_lists, file_name_lists, found_partitions, file_paths) ==
    filter_files_loop(partition_lists, file_name_lists, found_partitions, <<>>, file_paths, <<>>)

\* the call of filter_files made by filter_extract_file_paths when not extract_all
filter_extract_files(c, file_paths) ==
    filter_files(c.extract_partitions \o c.firmware_partitions \o c.extra_partitions,
                 c.firmware_files \o c.factory_files \o c.extra_files,
                 {}, file_paths)

\* a filter that selects every member
filter_extract_file_paths_everything(c, file_paths) == file_paths

filter_extract_file_paths(c, file_paths) ==
    IF c.extract_all THEN file_paths ELSE filter_extract_files(c, file_paths).paths

\* a refinement that keeps every name it is given, found or not
filter_extract_partitions_keeps_all(extract_partitions, file_paths) ==
    Range(extract_partitions)

\* a refinement that looks for the given names only, never for an alternate
filter_extract_partitions_given_only(extract_partitions, file_paths) ==
    filter_files_pass(extract_partitions, <<>>, file_paths).found

filter_extract_partitions(extract_partitions, file_paths) ==
    filter_files(extract_partitions, <<>>, {}, file_paths).found

\* The iterations of a filter_files call as entries of batches.
FilterBatches(stage, passes) ==
    [i \in 1..Len(passes) |->
        [stage |-> stage, wanted |-> passes[i].wanted, ret_success |-> passes[i].ret_success]]

(***************************************************************************)
(* The stages of extract_image as functions of the dump directory.         *)
(***************************************************************************)
\* The labels of a probe batch that the container holds, in batch order.
Successes(labels, container) == SelectSeq(labels, LAMBDA l : l \in container.parts)

RECURSIVE WriteImages(_, _, _)
\* Each successful probe leaves <label>.img in the output directory.
WriteImages(fs, labels, i) ==
    IF i > Len(labels) THEN fs
    ELSE WriteImages(Put(fs, WithExt(labels[i], "img"), InnerImage(labels[i])), labels, i + 1)

\* _extract_payload_bin: one probe per partition
payload_labels(extract_partitions) == extract_partitions

RECURSIVE super_labels(_)
\* _extract_super_img: one probe per partition and slot, '' before '_a'
super_labels(extract_partitions) ==
    IF extract_partitions = <<>> THEN <<>>
    ELSE << WithSlot(Head(extract_partitions), <<>>),
            WithSlot(Head(extract_partitions), <<"a">>) >>
         \o super_labels(Tail(extract_partitions))

RECURSIVE rename_slotted(_, _, _)
\* the loop over ret_success of _extract_super_img
rename_slotted(fs, ret_success, i) ==
    IF i > Len(ret_success) THEN fs
    ELSE LET partition_slot == ret_success[i]
             partition == unslot_partition(partition_slot)
         IN rename_slotted(
                IF partition = partition_slot THEN fs
                ELSE Rename(fs, WithExt(partition_slot, "img"), WithExt(partition, "img")),
                ret_success, i + 1)

\* found_partitions of _extract_super_img
unslotted(ret_success) == {unslot_partition(l) : l \in Range(ret_success)}

\* base_file_name.endswith(SPARSE_CHUNK_SUFFIX), base_file_name = splitext(name)[0]
IsChunk(file) ==
    LET base == splitext(file)
        last == base[Len(base)]
    IN Len(last) > 1 /\ last[Len(last)] = SPARSE_CHUNK_SUFFIX

\* <file>_sparsechunk.<index>
Chunk(file, index) ==
    Append([file EXCEPT ![Len(file)] = Append(@, SPARSE_CHUNK_SUFFIX)], <<index>>)

\* f'{file_path}{SPARSE_CHUNK_SUFFIX}.0'
ChunkZero(file) ==
    Append([file EXCEPT ![Len(file)] = Append(@, SPARSE_CHUNK_SUFFIX)], <<"0">>)

\* the (possibly renamed) path extract_sparse_raw_imgs keeps for a file
ChunkPath(file) == IF IsChunk(file) THEN file ELSE ChunkZero(file)

\* output_file_name of extract_sparse_raw_imgs
ChunkOutput(file) ==
    IF IsChunk(file)
    THEN LET base == splitext(file)
         IN [base EXCEPT ![Len(base)] = SubSeq(@, 1, Len(@) - 1)]
    ELSE file

\* int(chunk_index[1:]) for the indices the model uses
ChunkNumber == [t \in {"0", "1", "2", "3"} |-> CASE t = "0" -> 0 [] t = "1" -> 1
                                                 [] t = "2" -> 2 [] t = "3" -> 3]

partition_chunk_index(file) == ChunkNumber[file[Len(file)][1]]

RECURSIVE rename_singles(_, _)
\* the os.rename of every single sparse image to its _sparsechunk.0 name
rename_singles(fs, todo) ==
    IF todo = {} THEN fs
    ELSE LET f == CHOOSE x \in todo : TRUE
         IN rename_singles(IF IsChunk(f) THEN fs ELSE Rename(fs, f, ChunkZero(f)),
                           todo \ {f})

\* partition_chunks with one more chunk, put behind every chunk whose index is
\* not greater (list.sort is stable)
sort_insert(partition_chunks, chunk) ==
    LET n == Cardinality({i \in 1..Len(partition_chunks) :
                partition_chunk_index(partition_chunks[i]) <= partition_chunk_index(chunk)})
    IN SubSeq(partition_chunks, 1, n) \o <<chunk>>
       \o SubSeq(partition_chunks, n + 1, Len(partition_chunks))

\* a sort that leaves the chunks in scan order
sort_chunks_scan_order(partition_chunks) == partition_chunks

RECURSIVE sort_chunks(_)
\* partition_chunks.sort(key=partition_chunk_index)
sort_chunks(partition_chunks) ==
    IF partition_chunks = <<>> THEN <<>>
    ELSE sort_insert(sort_chunks(SubSeq(partition_chunks, 1, Len(partition_chunks) - 1)),
                     partition_chunks[Len(partition_chunks)])

\* [simg2img_path] + partition_chunks + [output_file_path], the tool left out
simg2img_argv(partition_chunks, output_file_name) ==
    sort_chunks(partition_chunks) \o <<output_file_name>>

\* simg2img chunk... out: the raw image starts with the data of the first chunk given
Desparse(fs, argv) == [fs[argv[1]] EXCEPT !.enc = "raw"]

RECURSIVE write_outputs(_, _, _, _)
\* The outputs of the helpers of a batch that exited 0: out[k] names the output
\* of input k and img[k] is what it holds.
write_outputs(fs, inputs, out, img) ==
    IF inputs = {} THEN fs
    ELSE LET k == CHOOSE x \in inputs : TRUE
         IN write_outputs(Put(fs, out[k], img[k]), inputs \ {k}, out, img)

\* brotli -d: <p>.new.dat.br -> <p>.new.dat
brotli_output(file) == splitext(file)

\* file_path[: -len(SPARSE_DATA_EXT)]
sparse_data_base(file) == SubSeq(file, 1, Len(file) - Len(SPARSE_DATA_EXT))

transfer_list(file) == sparse_data_base(file) \o TRANSFER_LIST_EXT

sparse_data_output(file) == WithExt(sparse_data_base(file), "img")

\* partition_name of extract_erofs / extract_ext4: the directory a dump goes to
partition_dir(file) == splitext(file)

RECURSIVE mkdir_each(_, _, _, _)
\* os.mkdir(partition_output_path) for each file in scan order; FileExistsError
\* stops the loop with the directories made so far
mkdir_each(fs, ds, order, i) ==
    IF i > Len(order) THEN [ok |-> TRUE, dirs |-> ds]
    ELSE IF Exists(fs, ds, partition_dir(order[i])) THEN [ok |-> FALSE, dirs |-> ds]
    ELSE mkdir_each(fs, ds \cup {<<partition_dir(order[i])>>}, order, i + 1)

\* path.exists of a path below dump_dir (only top-level regular files are modelled)
PathExists(fs, ds, path) == path \in ds \/ (Len(path) = 1 /\ path[1] \in DOMAIN fs)

\* shutil.move(src, dst) of a directory; dst = <<>> is dump_dir itself
shutil_move(fs, ds, from, to) ==
    LET into == to = <<>> \/ IsDir(ds, to)
        real_dst == IF into THEN Append(to, from[Len(from)]) ELSE to
    IN IF PathExists(fs, ds, real_dst)
       THEN [ok |-> FALSE, dirs |-> ds,
             err |-> IF into THEN "Error" ELSE "FileExistsError"]
       ELSE [ok |-> TRUE, dirs |-> MoveTree(ds, from, real_dst), err |-> ""]

move_sar_system_paths(fs, ds) ==
    IF ~IsDir(ds, <<system, system>>) THEN [ok |-> TRUE, dirs |-> ds, err |-> ""]
    ELSE LET one == shutil_move(fs, ds, <<system>>, <<system_root>>)
         IN IF ~one.ok THEN one
            ELSE shutil_move(fs, one.dirs, <<system_root, system>>, <<>>)

RECURSIVE move_alternate_loop(_, _, _)
move_alternate_loop(fs, ds, i) ==
    IF i > Len(ALTERNATE_PARTITION_PATH_MAP) THEN [ok |-> TRUE, dirs |-> ds, err |-> ""]
    ELSE LET e == ALTERNATE_PARTITION_PATH_MAP[i]
         IN IF IsDir(ds, <<e.partition>>) \/ ~IsDir(ds, e.path)
            THEN move_alternate_loop(fs, ds, i + 1)
            ELSE LET m == shutil_move(fs, ds, e.path, <<>>)
                 IN IF m.ok THEN move_alternate_loop(fs, m.dirs, i + 1) ELSE m

move_alternate_partition_paths(fs, ds) == move_alternate_loop(fs, ds, 1)

RECURSIVE stub_each(_, _, _, _)
\* the closing loop of extract_image: an empty directory per partition without one
stub_each(fs, ds, extract_partitions, i) ==
    IF i > Len(extract_partitions) THEN [ok |-> TRUE, dirs |-> ds, err |-> ""]
    ELSE LET p == extract_partitions[i]
         IN IF IsDir(ds, <<p>>) THEN stub_each(fs, ds, extract_partitions, i + 1)
            ELSE IF p \in DOMAIN fs THEN [ok |-> FALSE, dirs |-> ds, err |-> "FileExistsError"]
            ELSE stub_each(fs, ds \cup {<<p>>}, extract_partitions, i + 1)

\* a prune that keeps every name, extracted or not
not_extracted_keeps_all(ds, extract_partitions) == extract_partitions

\* filter_already_extracted_partitions: the names without a directory
not_extracted_partitions(ds, extract_partitions) ==
    SelectSeq(extract_partitions, LAMBDA p : ~IsDir(ds, <<p>>))

(***************************************************************************)
(* Inputs of the model.                                                    *)
(***************************************************************************)
File(name, content) == [name |-> name, content |-> content]

Img(partition) == WithExt(partition, "img")

SourceFiles ==
    { File(Img(system), Content("raw", "ext4", system, {}, {})),
      File(Img(system), Content("sparse", "ext4", system, {}, {<<vendor>>, <<vendor, odm>>})),
      File(Img(system), Content("raw", "erofs", system, {}, {<<system>>})),
      File(Img(vendor), Content("raw", "ext4", vendor, {}, {<<odm>>})),
      File(Img(system_ext), Content("raw", "erofs", system_ext, {}, {})),
      File(Img(product), Content("raw", "unknown", product, {}, {})),
      File(Img(boot), Content("sparse", "unknown", boot, {}, {})),
      File(vendor, Content("raw", "unknown", vendor, {}, {})),
      File(Chunk(Img(system), "0"), Content("sparse", "ext4", system, {}, {})),
      File(Chunk(Img(system), "1"), Content("sparse", "unknown", system, {}, {})),
      File(Chunk(Img(system), "2"), Content("sparse", "unknown", system, {}, {})),
      File(vendor \o BROTLI_EXT, Content("br", "ext4", vendor, {}, {})),
      File(vendor \o SPARSE_DATA_EXT, Content("sdat", "erofs", vendor, {}, {})),
      File(vendor \o TRANSFER_LIST_EXT, Content("list", "unknown", vendor, {}, {})),
      File(PAYLOAD_BIN_FILE_NAME,
           Content("raw", "payload", <<>>, {system, vendor}, {})),
      File(SUPER_IMG_NAME,
           Content("raw", "super", <<>>, {WithSlot(system, <<"a">>), system_ext}, {})),
      File(SUPER_IMG_NAME,
           Content("raw", "super", <<>>, {system, WithSlot(system, <<"a">>)}, {})),
      File(SUPER_IMG_NAME,
           Content("sparse", "super", <<>>,
                   {WithSlot(system_ext, <<"a">>), WithSlot(vendor, <<"a">>)}, {})) }

\* The sources: at most MaxFiles files, no two of one name.
Sources ==
    {S \in SUBSET SourceFiles :
        /\ Cardinality(S) <= MaxFiles
        /\ \A a, b \in S : a.name = b.name => a = b}

FsOf(S) == [n \in {f.name : f \in S} |-> (CHOOSE f \in S : f.name = n).content]

SourceKinds == {"dir", "zip"}

\* The --partitions lists tried, the default among them.
PartitionLists ==
    { <<system>>, <<product>>, <<system, vendor>>, <<system, system_ext>>,
      <<vendor, odm>>, DEFAULT_EXTRACTED_PARTITIONS }

(***************************************************************************)
(* The run: extract.py's __main__ and extract_image.                       *)
(***************************************************************************)
ExtractCtx(extract_partitions) ==
    [keep_dump |-> TRUE,
     extract_fns |-> <<>>,
     extract_partitions |-> extract_partitions,
     firmware_partitions |-> <<>>,
     extra_partitions |-> <<>>,
     firmware_files |-> <<>>,
     factory_files |-> <<>>,
     extra_files |-> <<>>,
     extract_all |-> FALSE]

\* extract_image with the first hook pass placed after the payload stage
extract_image_body_late_hook ==
    << "unpack", "payload", "hook1", "sparse_raw", "super", "refine", "brotli",
       "sparse_data", "erofs", "ext4", "hook2", "sar", "alternates", "stub" >>

\* The statements of extract_image in program order.
extract_image_body ==
    << "unpack", "hook1", "payload", "sparse_raw", "super", "refine", "brotli",
       "sparse_data", "erofs", "ext4", "hook2", "sar", "alternates", "stub" >>

\* The statement that follows a stage, "done" after the last.
After(stage) ==
    LET i == CHOOSE k \in 1..Len(extract_image_body) : extract_image_body[k] = stage
    IN IF i = Len(extract_image_body) THEN "done" ELSE extract_image_body[i + 1]

NoFirst == [pc |-> "none", files |-> NoFiles, dirs |-> {}, failed |-> {}]

FnIdle == [pc |-> "idle", name |-> <<>>, wanted |-> <<>>, found |-> {},
           unslotted |-> <<>>, alternates |-> <<>>, container |-> "", made |-> <<>>]

\* extract_zip has not been called.
ZipIdle == [pc |-> "idle", namelist |-> <<>>, c |-> ExtractCtx(<<>>), file_paths |-> <<>>,
            passes |-> <<>>, i |-> 1, tasks |-> <<>>]

\* process_cmds_in_parallel has not been called.
ParIdle == [pc |-> "idle", input_cmds |-> <<>>, fatal |-> FALSE, returncode |-> <<>>,
            i |-> 1, input_procs |-> <<>>, ret_success |-> <<>>, ret_fail |-> <<>>]

\* get_dump_dir has not been called on its own.
DdIdle == [pc |-> "idle", source |-> <<>>, keep_dump |-> TRUE, parent |-> <<>>,
           tmp |-> <<>>, dump_dir |-> [tmp |-> 0, path |-> <<>>], before |-> <<>>,
           written |-> {}, how |-> "", err |-> ""]

\* The layout normaliser has not been called on its own.
LayIdle == [pc |-> "idle", files |-> NoFiles, dirs |-> {}, given |-> {}, sar |-> {},
            err |-> ""]

\* run_extract_fns has not been called on its own.
HookIdle == [pc |-> "idle", extract_fns |-> <<>>, files |-> {}, dirs |-> {}, k |-> 1,
             found_files |-> <<>>, i |-> 1, j |-> 1, processed_files |-> {},
             todo |-> {}, seen |-> <<>>, log |-> <<>>, err |-> ""]

\* The command line has not been parsed on its own.
CliIdle == [pc |-> "idle", partitions |-> <<>>,
            extra_partitions |-> [given |-> FALSE, list |-> <<>>],
            extract_partitions |-> <<>>, ctx |-> ExtractCtx(<<>>), dirs |-> {}]

InitRun ==
    /\ pc = "get_dump_dir"
    /\ ctx = ExtractCtx(args.partitions)
    /\ wanted = <<>>
    /\ entry_partitions = <<>>
    /\ helpers = 0
    /\ trace = <<>>
    /\ batches = <<>>
    /\ err = ""
    /\ merged = {}
    /\ failed = {}
    /\ cmds = {}

Init ==
    /\ \E kind \in SourceKinds, S \in Sources, partitions \in PartitionLists :
          /\ src = [kind |-> kind, members |-> FsOf(S)]
          /\ args = [partitions |-> partitions]
          /\ dump_exists = (kind = "dir")
          /\ files = IF kind = "dir" THEN FsOf(S) ELSE NoFiles
    /\ dirs = {}
    /\ resumed = FALSE
    /\ first = NoFirst
    /\ fn = FnIdle
    /\ zip = ZipIdle
    /\ par = ParIdle
    /\ dd = DdIdle
    /\ lay = LayIdle
    /\ hook = HookIdle
    /\ cli = CliIdle
    /\ InitRun

\* an exception that is swallowed: the run ends as if it had returned
Raise_swallowed(e) == pc' = "done" /\ err' = e

\* An exception leaves extract_image and the process.
Raise(e) == pc' = "aborted" /\ err' = e

Begin(stage) == trace' = Append(trace, stage)

\* get_dump_dir
GetDumpDir ==
    /\ pc = "get_dump_dir"
    /\ pc' = "prune"
    /\ IF src.kind = "dir" \/ (ctx.keep_dump /\ dump_exists)
       THEN UNCHANGED <<files, dirs, dump_exists>>
       ELSE /\ files' = NoFiles
            /\ dirs' = {}
            /\ dump_exists' = ctx.keep_dump
    /\ UNCHANGED <<src, args, ctx, wanted, resumed, entry_partitions, helpers, trace,
                   batches, err, merged, first, failed, cmds, fn, zip, par, dd, lay, hook, cli>>

\* filter_already_extracted_partitions, and the test that guards extract_image
FilterAlreadyExtracted ==
    /\ pc = "prune"
    /\ IF \E p \in Range(ctx.extract_partitions) : ~IsDir(dirs, <<p>>) /\ p \in DOMAIN files
       THEN Raise("ValueError") /\ UNCHANGED ctx
       ELSE LET left == not_extracted_partitions(dirs, ctx.extract_partitions)
            IN /\ ctx' = [ctx EXCEPT !.extract_partitions = left]
               /\ pc' = IF left = <<>> THEN "done" ELSE "augment"
               /\ err' = err
    /\ UNCHANGED <<src, args, dump_exists, files, dirs, wanted, resumed, entry_partitions,
                   helpers, trace, batches, merged, first, failed, cmds, fn, zip, par, dd, lay, hook, cli>>

\* extract_image that appends to copies of the two lists, the context left as it was
Augment_on_a_copy ==
    /\ pc = "augment"
    /\ entry_partitions' = ctx.extract_partitions
    /\ pc' = extract_image_body[1]
    /\ UNCHANGED <<src, args, ctx, dump_exists, files, dirs, wanted, resumed, helpers,
                   trace, batches, err, merged, first, failed, cmds, fn, zip, par, dd,
                   lay, hook, cli>>

\* extract_image, up to the test of source_is_file
Augment ==
    /\ pc = "augment"
    /\ ctx' = [ctx EXCEPT !.extra_partitions = Append(@, SUPER_PARTITION_NAME),
                          !.extra_files = Append(@, PAYLOAD_BIN_FILE_NAME)]
    /\ entry_partitions' = ctx.extract_partitions
    /\ pc' = extract_image_body[1]
    /\ UNCHANGED <<src, args, dump_exists, files, dirs, wanted, resumed, helpers, trace,
                   batches, err, merged, first, failed, cmds, fn, zip, par, dd, lay, hook, cli>>

\* extract_image_file / extract_zip as one step: ProcessPoolExecutor(0) raises
\* ValueError, and a worker that cannot write its file fails unnoticed
Unpack ==
    /\ pc = "unpack"
    /\ Begin("unpack")
    /\ \E namelist \in Orderings({<<n>> : n \in DOMAIN src.members}) :
          LET file_paths == filter_extract_file_paths(ctx, namelist)
              passes == IF ctx.extract_all THEN <<>>
                        ELSE filter_extract_files(ctx, namelist).passes
              written == {basename(q) : q \in {r \in Range(file_paths) :
                                                  <<basename(r)>> \notin dirs}}
          IN IF src.kind = "dir"
             THEN pc' = After("unpack") /\ UNCHANGED <<files, err, batches>>
             ELSE /\ batches' = batches \o FilterBatches("unpack", passes)
                  /\ IF file_paths = <<>>
                     THEN Raise("ValueError") /\ UNCHANGED files
                     ELSE /\ files' = Overlay(files, [f \in written |-> src.members[f]])
                          /\ pc' = After("unpack")
                          /\ err' = err
    /\ UNCHANGED <<src, args, ctx, dump_exists, dirs, wanted, resumed, entry_partitions,
                   helpers, merged, first, failed, cmds, fn, zip, par, dd, lay, hook, cli>>

\* run_extract_fns over ctx.extract_fns, which holds no pattern
HookPass1 ==
    /\ pc = "hook1"
    /\ Begin("hook1")
    /\ ctx.extract_fns = <<>>
    /\ pc' = After("hook1")
    /\ UNCHANGED <<src, args, ctx, dump_exists, files, dirs, wanted, resumed,
                   entry_partitions, helpers, batches, err, merged, first, failed, cmds, fn, zip, par, dd, lay, hook, cli>>

\* find_payload_paths and the entry of extract_payload_bin
PayloadStage ==
    /\ pc = "payload"
    /\ Begin("payload")
    /\ IF find_payload_paths(<<PAYLOAD_BIN_FILE_NAME>>, files) = {}
       THEN pc' = After("payload") /\ UNCHANGED wanted
       ELSE /\ wanted' = ctx.extract_partitions \o ctx.firmware_partitions
            /\ pc' = "payload_loop"
    /\ UNCHANGED <<src, args, ctx, dump_exists, files, dirs, resumed, entry_partitions,
                   helpers, batches, err, merged, first, failed, cmds, fn, zip, par, dd, lay, hook, cli>>

\* One iteration of the loop of extract_payload_bin; after the last one
\* remove_file_paths(payload_bin_paths)
PayloadLoop ==
    /\ pc = "payload_loop"
    /\ LET labels == payload_labels(wanted)
           ret_success == Successes(labels, files[PAYLOAD_BIN_FILE_NAME])
           next == find_alternate_partitions(wanted, Range(ret_success))
           fs == WriteImages(files, ret_success, 1)
       IN /\ helpers' = helpers + Len(labels)
          /\ batches' = Append(batches, [stage |-> "payload", wanted |-> wanted,
                                         ret_success |-> ret_success])
          /\ failed' = failed \cup {[stage |-> "payload", input_id |-> l] :
                                       l \in Range(labels) \ Range(ret_success)}
          /\ wanted' = next
          /\ IF next = <<>>
             THEN /\ files' = Remove(fs, {PAYLOAD_BIN_FILE_NAME})
                  /\ pc' = After("payload")
             ELSE files' = fs /\ pc' = pc
    /\ UNCHANGED <<src, args, ctx, dump_exists, dirs, resumed, entry_partitions, trace,
                   err, merged, first, cmds, fn, zip, par, dd, lay, hook, cli>>

\* No helper: the choice in which every helper of a fatal batch exits 0.
Nobody == <<>>

\* The outcomes of a fatal batch (process_cmds_in_parallel, fatal=True): every
\* helper exits 0, or one of them does not; must_fail are the helpers that
\* cannot succeed.
Failing(batch, must_fail) == IF must_fail = {} THEN batch \cup {Nobody} ELSE must_fail

\* find_sparse_raw_paths, extract_sparse_raw_imgs, remove_file_paths: the paths
\* come in scan order; remove_file_paths meets a path listed twice with
\* FileNotFoundError
SparseRawStage ==
    /\ pc = "sparse_raw"
    /\ Begin("sparse_raw")
    /\ \E file_paths \in Orderings(find_sparse_raw_paths(
                            ctx.extract_partitions \o <<SUPER_PARTITION_NAME>>, files)) :
          LET renamed == rename_singles(files, Range(file_paths))
              new_file_paths == [i \in 1..Len(file_paths) |-> ChunkPath(file_paths[i])]
              outputs == {ChunkOutput(f) : f \in Range(new_file_paths)}
              partition_chunks_map ==
                  [o \in outputs |-> SelectSeq(new_file_paths, LAMBDA f : ChunkOutput(f) = o)]
              argv == [o \in outputs |-> simg2img_argv(partition_chunks_map[o], o)]
              image == [o \in outputs |-> Desparse(renamed, argv[o])]
          IN \E bad \in Failing(outputs, {}) :
                /\ helpers' = helpers + Cardinality(outputs)
                /\ cmds' = cmds \cup {[input_id |-> o, argv |-> argv[o]] : o \in outputs}
                /\ failed' = failed \cup {[stage |-> "sparse_raw", input_id |-> o] :
                                             o \in outputs \cap {bad}}
                /\ IF file_paths = <<>>
                   THEN pc' = After("sparse_raw") /\ UNCHANGED <<files, err>>
                   ELSE IF bad # Nobody
                   THEN /\ files' = write_outputs(renamed, outputs \ {bad},
                                                  [o \in outputs |-> o], image)
                        /\ Raise("ValueError")
                   ELSE /\ files' = Remove(write_outputs(renamed, outputs,
                                                         [o \in outputs |-> o], image),
                                           Range(new_file_paths))
                        /\ IF NoDup(new_file_paths)
                           THEN pc' = After("sparse_raw") /\ err' = err
                           ELSE Raise("FileNotFoundError")
    /\ UNCHANGED <<src, args, ctx, dump_exists, dirs, wanted, resumed, entry_partitions,
                   batches, merged, first, fn, zip, par, dd, lay, hook, cli>>

\* find_super_img_paths and the entry of extract_super_img
SuperStage ==
    /\ pc = "super"
    /\ Begin("super")
    /\ IF find_super_img_paths(<<SUPER_IMG_NAME>>, files) = {}
       THEN pc' = After("super") /\ UNCHANGED wanted
       ELSE /\ wanted' = ctx.extract_partitions
            /\ pc' = "super_loop"
    /\ UNCHANGED <<src, args, ctx, dump_exists, files, dirs, resumed, entry_partitions,
                   helpers, batches, err, merged, first, failed, cmds, fn, zip, par, dd, lay, hook, cli>>

\* One iteration of the loop of extract_super_img (_extract_super_img and
\* find_alternate_partitions); after the last one remove_file_paths(super_img_paths)
SuperLoop ==
    /\ pc = "super_loop"
    /\ LET labels == super_labels(wanted)
           ret_success == Successes(labels, files[SUPER_IMG_NAME])
           unpacked == WriteImages(files, ret_success, 1)
           fs == rename_slotted(unpacked, ret_success, 1)
           next == find_alternate_partitions(wanted, unslotted(ret_success))
       IN /\ helpers' = helpers + Len(labels)
          /\ batches' = Append(batches, [stage |-> "super", wanted |-> wanted,
                                         ret_success |-> ret_success])
          /\ failed' = failed \cup {[stage |-> "super", input_id |-> l] :
                                       l \in Range(labels) \ Range(ret_success)}
          /\ IF ~NoDup(ret_success)
             THEN /\ files' = unpacked
                  /\ Raise("AssertionError")
                  /\ UNCHANGED wanted
             ELSE /\ wanted' = next
                  /\ err' = err
                  /\ IF next = <<>>
                     THEN /\ files' = Remove(fs, {SUPER_IMG_NAME})
                          /\ pc' = After("super")
                     ELSE files' = fs /\ pc' = pc
    /\ UNCHANGED <<src, args, ctx, dump_exists, dirs, resumed, entry_partitions, trace,
                   merged, first, cmds, fn, zip, par, dd, lay, hook, cli>>

\* update_extract_partitions: os.scandir and list(set) leave the orders open
Refine ==
    /\ pc = "refine"
    /\ Begin("refine")
    /\ \E file_paths \in Orderings({<<n>> : n \in DOMAIN files}) :
          /\ \E new_extract_partitions \in
                  Orderings(filter_extract_partitions(ctx.extract_partitions, file_paths)) :
                ctx' = [ctx EXCEPT !.extract_partitions = new_extract_partitions]
          /\ batches' = batches \o FilterBatches(
                 "refine", filter_files(ctx.extract_partitions, <<>>, {}, file_paths).passes)
    /\ pc' = After("refine")
    /\ UNCHANGED <<src, args, dump_exists, files, dirs, wanted, resumed, entry_partitions,
                   helpers, err, merged, first, failed, cmds, fn, zip, par, dd, lay, hook, cli>>

\* find_brotli_paths, extract_brotli_imgs, remove_file_paths
BrotliStage ==
    /\ pc = "brotli"
    /\ Begin("brotli")
    /\ LET brotli_paths == find_brotli_paths(ctx.extract_partitions, files)
           out == [f \in brotli_paths |-> brotli_output(f)]
           img == [f \in brotli_paths |-> [files[f] EXCEPT !.enc = "sdat"]]
       IN \E bad \in Failing(brotli_paths, {f \in brotli_paths : files[f].enc # "br"}) :
             /\ helpers' = helpers + Cardinality(brotli_paths)
             /\ failed' = failed \cup {[stage |-> "brotli", input_id |-> f] :
                                          f \in brotli_paths \cap {bad}}
             /\ IF brotli_paths = {}
                THEN pc' = After("brotli") /\ UNCHANGED <<files, err>>
                ELSE IF bad # Nobody
                THEN /\ files' = write_outputs(files, brotli_paths \ {bad}, out, img)
                     /\ Raise("ValueError")
                ELSE /\ files' = Remove(write_outputs(files, brotli_paths, out, img),
                                        brotli_paths)
                     /\ pc' = After("brotli")
                     /\ err' = err
    /\ UNCHANGED <<src, args, ctx, dump_exists, dirs, wanted, resumed, entry_partitions,
                   batches, merged, first, cmds, fn, zip, par, dd, lay, hook, cli>>

\* find_sparse_data_paths, extract_sparse_data_imgs, remove_file_paths; sdat2img
\* cannot succeed without its transfer list
SparseDataStage ==
    /\ pc = "sparse_data"
    /\ Begin("sparse_data")
    /\ LET sparse_data_paths == find_sparse_data_paths(ctx.extract_partitions, files)
           out == [f \in sparse_data_paths |-> sparse_data_output(f)]
           img == [f \in sparse_data_paths |-> [files[f] EXCEPT !.enc = "raw"]]
           must_fail == {f \in sparse_data_paths :
                            transfer_list(f) \notin DOMAIN files \/ files[f].enc # "sdat"}
       IN \E bad \in Failing(sparse_data_paths, must_fail) :
             /\ helpers' = helpers + Cardinality(sparse_data_paths)
             /\ failed' = failed \cup {[stage |-> "sparse_data", input_id |-> f] :
                                          f \in sparse_data_paths \cap {bad}}
             /\ IF sparse_data_paths = {}
                THEN pc' = After("sparse_data") /\ UNCHANGED <<files, err, merged>>
                ELSE IF bad # Nobody
                THEN /\ files' = write_outputs(files, sparse_data_paths \ {bad}, out, img)
                     /\ merged' = merged \cup (sparse_data_paths \ {bad})
                     /\ Raise("ValueError")
                ELSE /\ files' = Remove(write_outputs(files, sparse_data_paths, out, img),
                                        sparse_data_paths)
                     /\ merged' = merged \cup sparse_data_paths
                     /\ pc' = After("sparse_data")
                     /\ err' = err
    /\ UNCHANGED <<src, args, ctx, dump_exists, dirs, wanted, resumed, entry_partitions,
                   batches, first, cmds, fn, zip, par, dd, lay, hook, cli>>

\* extract_erofs / extract_ext4 on the paths found, then remove_file_paths: the
\* directories are made in scan order before any helper is spawned
DumpImages(stage, paths) ==
    \E order \in Orderings(paths) :
       LET made == mkdir_each(files, dirs, order, 1)
       IN \E bad \in Failing(paths, {}) :
             IF paths = {}
             THEN pc' = After(stage) /\ UNCHANGED <<files, dirs, err, helpers, failed>>
             ELSE IF ~made.ok
             THEN /\ dirs' = made.dirs
                  /\ Raise("FileExistsError")
                  /\ UNCHANGED <<files, helpers, failed>>
             ELSE /\ helpers' = helpers + Cardinality(paths)
                  /\ failed' = failed \cup {[stage |-> stage, input_id |-> f] :
                                               f \in paths \cap {bad}}
                  /\ dirs' = made.dirs \cup
                       UNION {Dumped(partition_dir(f), files[f]) : f \in paths \ {bad}}
                  /\ IF bad # Nobody
                     THEN Raise("ValueError") /\ UNCHANGED files
                     ELSE /\ files' = Remove(files, paths)
                          /\ pc' = After(stage)
                          /\ err' = err

ErofsStage ==
    /\ pc = "erofs"
    /\ Begin("erofs")
    /\ DumpImages("erofs", find_erofs_paths(ctx.extract_partitions, files))
    /\ UNCHANGED <<src, args, ctx, dump_exists, wanted, resumed, entry_partitions,
                   batches, merged, first, cmds, fn, zip, par, dd, lay, hook, cli>>

Ext4Stage ==
    /\ pc = "ext4"
    /\ Begin("ext4")
    /\ DumpImages("ext4", find_ext4_paths(ctx.extract_partitions, files))
    /\ UNCHANGED <<src, args, ctx, dump_exists, wanted, resumed, entry_partitions,
                   batches, merged, first, cmds, fn, zip, par, dd, lay, hook, cli>>

\* the second run_extract_fns
HookPass2 ==
    /\ pc = "hook2"
    /\ Begin("hook2")
    /\ ctx.extract_fns = <<>>
    /\ pc' = After("hook2")
    /\ UNCHANGED <<src, args, ctx, dump_exists, files, dirs, wanted, resumed,
                   entry_partitions, helpers, batches, err, merged, first, failed, cmds, fn, zip, par, dd, lay, hook, cli>>

\* a step of the layout normaliser or the stub loop: the directories it leaves
Relayout(stage, moved) ==
    /\ pc = stage
    /\ Begin(stage)
    /\ dirs' = moved.dirs
    /\ IF moved.ok THEN pc' = After(stage) /\ err' = err ELSE Raise(moved.err)
    /\ UNCHANGED <<src, args, ctx, dump_exists, files, wanted, resumed, entry_partitions,
                   helpers, batches, merged, first, failed, cmds, fn, zip, par, dd, lay, hook, cli>>

MoveSar == Relayout("sar", move_sar_system_paths(files, dirs))

MoveAlternates == Relayout("alternates", move_alternate_partition_paths(files, dirs))

Stub == Relayout("stub", stub_each(files, dirs, ctx.extract_partitions, 1))

\* The command is given again, with the same source and arguments.
Rerun ==
    /\ pc \in {"done", "aborted"}
    /\ ~resumed
    /\ UNCHANGED <<src, args, dump_exists, files, dirs, fn, zip, par, dd, lay, hook, cli>>
    /\ resumed' = TRUE
    /\ first' = [pc |-> pc, files |-> files, dirs |-> dirs, failed |-> failed]
    /\ pc' = "get_dump_dir"
    /\ ctx' = ExtractCtx(args.partitions)
    /\ wanted' = <<>>
    /\ entry_partitions' = <<>>
    /\ helpers' = 0
    /\ trace' = <<>>
    /\ batches' = <<>>
    /\ err' = ""
    /\ merged' = {}
    /\ failed' = {}
    /\ cmds' = {}

Next ==
    \/ GetDumpDir
    \/ FilterAlreadyExtracted
    \/ Augment
    \/ Unpack
    \/ HookPass1
    \/ PayloadStage
    \/ PayloadLoop
    \/ SparseRawStage
    \/ SuperStage
    \/ SuperLoop
    \/ Refine
    \/ BrotliStage
    \/ SparseDataStage
    \/ ErofsStage
    \/ Ext4Stage
    \/ HookPass2
    \/ MoveSar
    \/ MoveAlternates
    \/ Stub
    \/ Rerun

Spec == Init /\ [][Next]_vars

(***************************************************************************)
(* The name functions on their own: unslot_partition and                   *)
(* find_alternate_partitions applied to inputs drawn from bounded sets.    *)
(***************************************************************************)
Partitions == Range(DEFAULT_EXTRACTED_PARTITIONS)

\* The labels _extract_super_img probes for the default partitions.
ProbeNames == {WithSlot(p, slot) : p \in Partitions, slot \in {<<>>, <<"a">>}}

WantedLists == UNION {[1..k -> Partitions] : k \in 0..MaxWanted}

InitFn ==
    /\ src = [kind |-> "dir", members |-> NoFiles]
    /\ args = [partitions |-> DEFAULT_EXTRACTED_PARTITIONS]
    /\ dump_exists = TRUE
    /\ files = NoFiles
    /\ dirs = {}
    /\ resumed = FALSE
    /\ first = NoFirst
    /\ zip = ZipIdle
    /\ par = ParIdle
    /\ dd = DdIdle
    /\ lay = LayIdle
    /\ hook = HookIdle
    /\ cli = CliIdle
    /\ InitRun
    /\ \E name \in ProbeNames, extract_partitions \in WantedLists,
          found_partitions \in SUBSET Partitions :
          fn = [FnIdle EXCEPT !.pc = "called", !.name = name,
                              !.wanted = extract_partitions, !.found = found_partitions]

CallUnslot ==
    /\ fn.pc = "called"
    /\ fn' = [fn EXCEPT !.pc = "unslotted", !.unslotted = unslot_partition(fn.name)]
    /\ UNCHANGED <<pipe_vars, zip, par, dd, lay, hook, cli>>

CallFindAlternates ==
    /\ fn.pc = "unslotted"
    /\ fn' = [fn EXCEPT !.pc = "returned",
                        !.alternates = find_alternate_partitions(fn.wanted, fn.found)]
    /\ UNCHANGED <<pipe_vars, zip, par, dd, lay, hook, cli>>

NextFn == CallUnslot \/ CallFindAlternates

SpecFn == InitFn /\ [][NextFn]_vars

(***************************************************************************)
(* The probe loops on their own: extract_payload_bin and extract_super_img *)
(* started from a wanted list drawn from a bounded set, every helper of    *)
(* every batch free to exit zero or not.  fn.wanted is the local           *)
(* extract_partitions of the loop and fn.made lists the batches submitted. *)
(***************************************************************************)
\* The names a loop can be started with: the default partitions and one that
\* has no alternate, as a firmware partition has none
LoopNames == Partitions \cup {boot}

LoopLists ==
    UNION {[1..k -> LoopNames] : k \in 0..MaxWanted} \cup {DEFAULT_EXTRACTED_PARTITIONS}

\* The labels of a batch whose helper exited 0, in batch order (ok holds their
\* positions): ret_success of process_cmds_in_parallel
ret_success_of(labels, ok) ==
    LET F[k \in 0..Len(labels)] ==
            IF k = 0 THEN <<>>
            ELSE IF k \in ok THEN Append(F[k - 1], labels[k]) ELSE F[k - 1]
    IN F[Len(labels)]

InitProbeLoop ==
    /\ src = [kind |-> "dir", members |-> NoFiles]
    /\ args = [partitions |-> DEFAULT_EXTRACTED_PARTITIONS]
    /\ dump_exists = TRUE
    /\ files = NoFiles
    /\ dirs = {}
    /\ resumed = FALSE
    /\ first = NoFirst
    /\ zip = ZipIdle
    /\ par = ParIdle
    /\ dd = DdIdle
    /\ lay = LayIdle
    /\ hook = HookIdle
    /\ cli = CliIdle
    /\ InitRun
    /\ \E container \in {"payload", "super"}, extract_partitions \in LoopLists :
          fn = [FnIdle EXCEPT !.pc = "loop", !.container = container,
                              !.wanted = extract_partitions]

\* One iteration of the loop of extract_payload_bin: _extract_payload_bin, then
\* find_alternate_partitions
PayloadBatch ==
    /\ fn.pc = "loop"
    /\ fn.container = "payload"
    /\ fn.wanted # <<>>
    /\ LET labels == payload_labels(fn.wanted)
       IN \E ok \in SUBSET (1..Len(labels)) :
             LET found_partitions == ret_success_of(labels, ok)
             IN fn' = [fn EXCEPT
                         !.made = Append(@, [wanted |-> fn.wanted,
                                             ret_success |-> found_partitions]),
                         !.wanted = find_alternate_partitions(
                                        fn.wanted, Range(found_partitions))]
    /\ UNCHANGED <<pipe_vars, zip, par, dd, lay, hook, cli>>

\* One iteration of the loop of extract_super_img: _extract_super_img with its
\* assert, then find_alternate_partitions
SuperBatch ==
    /\ fn.pc = "loop"
    /\ fn.container = "super"
    /\ fn.wanted # <<>>
    /\ LET labels == super_labels(fn.wanted)
       IN \E ok \in SUBSET (1..Len(labels)) :
             LET ret_success == ret_success_of(labels, ok)
                 batch == [wanted |-> fn.wanted, ret_success |-> ret_success]
             IN IF ~NoDup(ret_success)
                THEN fn' = [fn EXCEPT !.pc = "raised", !.made = Append(@, batch)]
                ELSE fn' = [fn EXCEPT
                              !.made = Append(@, batch),
                              !.wanted = find_alternate_partitions(
                                             fn.wanted, unslotted(ret_success))]
    /\ UNCHANGED <<pipe_vars, zip, par, dd, lay, hook, cli>>

\* while extract_partitions: the loop is left when the list is empty
LoopReturn ==
    /\ fn.pc = "loop"
    /\ fn.wanted = <<>>
    /\ fn' = [fn EXCEPT !.pc = "returned"]
    /\ UNCHANGED <<pipe_vars, zip, par, dd, lay, hook, cli>>

NextProbeLoop == PayloadBatch \/ SuperBatch \/ LoopReturn

SpecProbeLoop == InitProbeLoop /\ [][NextProbeLoop]_vars

(***************************************************************************)
(* The fan-out on its own: extract_zip with its worker tasks, and           *)
(* process_cmds_in_parallel with its child processes, each started from     *)
(* inputs drawn from bounded sets.  A child process is running, then exited *)
(* (its exit status is there to be collected), then waited (communicate     *)
(* has collected it); a worker task is submitted, then writing (its output  *)
(* file is open), then done.                                                *)
(***************************************************************************)
\* The pipeline is not run.
Parked ==
    /\ src = [kind |-> "dir", members |-> NoFiles]
    /\ args = [partitions |-> DEFAULT_EXTRACTED_PARTITIONS]
    /\ dump_exists = TRUE
    /\ files = NoFiles
    /\ dirs = {}
    /\ resumed = FALSE
    /\ first = NoFirst
    /\ fn = FnIdle
    /\ InitRun

\* A directory of the archive.
firmware_dir == Name(<<"firmware">>)

\* The member names and the member paths of the archives tried.
ZipNames == {Img(system), Img(vendor), Img(boot), PAYLOAD_BIN_FILE_NAME}

ZipPaths == {<<n>> : n \in ZipNames} \cup {<<firmware_dir, n>> : n \in ZipNames}

ZipNameLists ==
    {s \in UNION {[1..k -> ZipPaths] : k \in 0..MaxMembers} : NoDup(s)}

\* The contexts tried: what extract_image hands to extract_zip after it has added
\* super and payload.bin, for several requests and firmware lists.
ZipCtxs ==
    {[ExtractCtx(partitions) EXCEPT !.extra_partitions = <<SUPER_PARTITION_NAME>>,
                                    !.extra_files = <<PAYLOAD_BIN_FILE_NAME>>,
                                    !.firmware_partitions = firmware_partitions,
                                    !.firmware_files = firmware_files,
                                    !.extract_all = extract_all] :
        partitions \in {<<system>>, <<product>>, <<vendor, odm>>},
        firmware_partitions \in {<<>>, <<boot>>},
        firmware_files \in {<<>>, <<Img(boot)>>},
        extract_all \in BOOLEAN}

InitZip ==
    /\ Parked
    /\ dd = DdIdle
    /\ lay = LayIdle
    /\ hook = HookIdle
    /\ cli = CliIdle
    /\ par = ParIdle
    /\ \E namelist \in ZipNameLists, c \in ZipCtxs :
          zip = [ZipIdle EXCEPT !.pc = "called", !.namelist = namelist, !.c = c]

\* zip_file.namelist(), filter_extract_file_paths and ProcessPoolExecutor(len(file_paths)),
\* which raises ValueError for 0
ZipFilter ==
    /\ zip.pc = "called"
    /\ LET file_paths == filter_extract_file_paths(zip.c, zip.namelist)
       IN zip' = [zip EXCEPT
                    !.file_paths = file_paths,
                    !.passes = IF zip.c.extract_all THEN <<>>
                               ELSE filter_extract_files(zip.c, zip.namelist).passes,
                    !.pc = IF file_paths = <<>> THEN "raised" ELSE "submit"]
    /\ UNCHANGED <<pipe_vars, fn, par, dd, lay, hook, cli>>

\* exe.submit(unzip_file, source, file_path, output_file_path)
ZipSubmit ==
    /\ zip.pc = "submit"
    /\ zip.i <= Len(zip.file_paths)
    /\ zip' = [zip EXCEPT
                 !.tasks = Append(@, [file_path |-> zip.file_paths[zip.i],
                                      output_file_path |-> basename(zip.file_paths[zip.i]),
                                      state |-> "submitted"]),
                 !.i = @ + 1]
    /\ UNCHANGED <<pipe_vars, fn, par, dd, lay, hook, cli>>

\* unzip_file in a worker: open(output_file_path, 'wb')
ZipWorkerOpen ==
    /\ \E k \in 1..Len(zip.tasks) :
          /\ zip.tasks[k].state = "submitted"
          /\ zip' = [zip EXCEPT !.tasks[k].state = "writing"]
    /\ UNCHANGED <<pipe_vars, fn, par, dd, lay, hook, cli>>

\* unzip_file in a worker: the copy is made and the file closed
ZipWorkerClose ==
    /\ \E k \in 1..Len(zip.tasks) :
          /\ zip.tasks[k].state = "writing"
          /\ zip' = [zip EXCEPT !.tasks[k].state = "done"]
    /\ UNCHANGED <<pipe_vars, fn, par, dd, lay, hook, cli>>

\* a shutdown that does not wait for the tasks
joined_no_wait(tasks) == TRUE

\* What the exit of the with block waits for: shutdown(wait=True)
joined(tasks) == \A k \in 1..Len(tasks) : tasks[k].state = "done"

\* the end of the with block of extract_zip, and the return
ZipShutdown ==
    /\ zip.pc = "submit"
    /\ zip.i > Len(zip.file_paths)
    /\ joined(zip.tasks)
    /\ zip' = [zip EXCEPT !.pc = "returned"]
    /\ UNCHANGED <<pipe_vars, fn, par, dd, lay, hook, cli>>

\* The exit statuses a child process can end with.
ReturnCodes == {0, 1}

\* What the child process of the k-th command writes to its stderr.
StderrOf(k) == <<"stderr", k>>

InitPar ==
    /\ Parked
    /\ dd = DdIdle
    /\ lay = LayIdle
    /\ hook = HookIdle
    /\ cli = CliIdle
    /\ zip = ZipIdle
    /\ \E n \in 0..MaxBatch, fatal \in BOOLEAN :
          \E returncode \in [1..n -> ReturnCodes] :
             par = [ParIdle EXCEPT !.pc = "spawn",
                                   !.input_cmds = SubSeq(DEFAULT_EXTRACTED_PARTITIONS, 1, n),
                                   !.fatal = fatal,
                                   !.returncode = returncode]

\* the first loop: Popen(cmd, stdout=PIPE, stderr=PIPE, text=True)
ParPopen ==
    /\ par.pc = "spawn"
    /\ par.i <= Len(par.input_cmds)
    /\ par' = [par EXCEPT
                 !.input_procs = Append(@, [input_id |-> par.input_cmds[par.i],
                                            state |-> "running"]),
                 !.i = @ + 1]
    /\ UNCHANGED <<pipe_vars, fn, zip, dd, lay, hook, cli>>

\* the first loop is over
ParSpawned ==
    /\ par.pc = "spawn"
    /\ par.i > Len(par.input_cmds)
    /\ par' = [par EXCEPT !.pc = "communicate", !.i = 1]
    /\ UNCHANGED <<pipe_vars, fn, zip, dd, lay, hook, cli>>

\* a child process ends, whatever the parent is doing
ParExit ==
    /\ \E k \in 1..Len(par.input_procs) :
          /\ par.input_procs[k].state = "running"
          /\ par' = [par EXCEPT !.input_procs[k].state = "exited"]
    /\ UNCHANGED <<pipe_vars, fn, zip, dd, lay, hook, cli>>

\* a body of the second loop that raises for every non-zero exit
collect_always_fatal(p, input_id, returncode, stderr) ==
    IF returncode # 0 THEN [p EXCEPT !.pc = "raised"]
    ELSE [p EXCEPT !.ret_success = Append(@, input_id)]

\* the body of the second loop after communicate()
collect(p, input_id, returncode, stderr) ==
    IF returncode # 0
    THEN IF p.fatal THEN [p EXCEPT !.pc = "raised"]
         ELSE [p EXCEPT !.ret_fail = Append(@, <<input_id, returncode, stderr>>)]
    ELSE [p EXCEPT !.ret_success = Append(@, input_id)]

\* the second loop: proc.communicate() returns when the process has ended
ParCommunicate ==
    /\ par.pc = "communicate"
    /\ par.i <= Len(par.input_procs)
    /\ par.input_procs[par.i].state = "exited"
    /\ par' = collect([par EXCEPT !.input_procs[par.i].state = "waited", !.i = @ + 1],
                      par.input_procs[par.i].input_id, par.returncode[par.i],
                      StderrOf(par.i))
    /\ UNCHANGED <<pipe_vars, fn, zip, dd, lay, hook, cli>>

\* return ret_fail, ret_success
ParReturn ==
    /\ par.pc = "communicate"
    /\ par.i > Len(par.input_procs)
    /\ par' = [par EXCEPT !.pc = "returned"]
    /\ UNCHANGED <<pipe_vars, fn, zip, dd, lay, hook, cli>>

\* Either extract_zip or process_cmds_in_parallel is called.
InitFanOut == InitZip \/ InitPar

NextFanOut ==
    \/ ZipFilter
    \/ ZipSubmit
    \/ ZipWorkerOpen
    \/ ZipWorkerClose
    \/ ZipShutdown
    \/ ParPopen
    \/ ParSpawned
    \/ ParExit
    \/ ParCommunicate
    \/ ParReturn

SpecFanOut == InitFanOut /\ [][NextFanOut]_vars

(***************************************************************************)
(* get_dump_dir on its own: the context manager entered on a source path,   *)
(* the body of the with statement, and the way the scope is left.  The      *)
(* directory that holds the source is a function from names to nodes; the   *)
(* temporary directories made so far are a list, a fresh one at its end.    *)
(***************************************************************************)
Absent == [kind |-> "absent", entries |-> {}]

RegularFile == [kind |-> "file", entries |-> {}]

\* neither a regular file nor a directory: a socket, a device
Special == [kind |-> "other", entries |-> {}]

Directory(entries) == [kind |-> "dir", entries |-> entries]

\* What a dump dir may hold.
DumpEntries == {system, Img(system)}

Nodes == {Absent, RegularFile, Special} \cup {Directory(e) : e \in SUBSET DumpEntries}

\* The source paths tried: fw.zip, and fw that has no extension.
DdSources == {WithExt(Name(<<"fw">>), "zip"), Name(<<"fw">>)}

DdPaths == DdSources \cup {splitext(s) : s \in DdSources}

NoDumpDir == [tmp |-> 0, path |-> <<>>]

\* get_dump_dir with the test of the sibling path placed before that of keep_dump
acquire_sibling_first(parent, tmp, source, keep_dump) ==
    LET same == [err |-> "", parent |-> parent, tmp |-> tmp, dump_dir |-> NoDumpDir]
        dump_dir == splitext(source)
    IN IF parent[source].kind = "absent" THEN [same EXCEPT !.err = "FileNotFoundError"]
       ELSE IF parent[source].kind \notin {"file", "dir"}
       THEN [same EXCEPT !.err = "ValueError"]
       ELSE IF parent[source].kind = "dir"
       THEN [same EXCEPT !.dump_dir.path = source]
       ELSE IF parent[dump_dir].kind \notin {"dir", "absent"}
       THEN [same EXCEPT !.err = "ValueError"]
       ELSE IF ~keep_dump
       THEN [same EXCEPT !.tmp = Append(tmp, Directory({})),
                         !.dump_dir.tmp = Len(tmp) + 1]
       ELSE IF parent[dump_dir].kind = "dir"
       THEN [same EXCEPT !.dump_dir.path = dump_dir]
       ELSE [same EXCEPT !.parent[dump_dir] = Directory({}),
                         !.dump_dir.path = dump_dir]

\* get_dump_dir that empties a dump dir it finds
acquire_fresh(parent, tmp, source, keep_dump) ==
    LET same == [err |-> "", parent |-> parent, tmp |-> tmp, dump_dir |-> NoDumpDir]
        dump_dir == splitext(source)
    IN IF parent[source].kind = "absent" THEN [same EXCEPT !.err = "FileNotFoundError"]
       ELSE IF parent[source].kind \notin {"file", "dir"}
       THEN [same EXCEPT !.err = "ValueError"]
       ELSE IF parent[source].kind = "dir"
       THEN [same EXCEPT !.dump_dir.path = source]
       ELSE IF ~keep_dump
       THEN [same EXCEPT !.tmp = Append(tmp, Directory({})),
                         !.dump_dir.tmp = Len(tmp) + 1]
       ELSE IF parent[dump_dir].kind \notin {"dir", "absent"}
       THEN [same EXCEPT !.err = "ValueError"]
       ELSE [same EXCEPT !.parent[dump_dir] = Directory({}),
                         !.dump_dir.path = dump_dir]

\* get_dump_dir up to its yield or its raise: the error, the paths and the
\* temporary directories it leaves, and the dump dir it yields
acquire(parent, tmp, source, keep_dump) ==
    LET same == [err |-> "", parent |-> parent, tmp |-> tmp, dump_dir |-> NoDumpDir]
        dump_dir == splitext(source)
    IN IF parent[source].kind = "absent" THEN [same EXCEPT !.err = "FileNotFoundError"]
       ELSE IF parent[source].kind \notin {"file", "dir"}
       THEN [same EXCEPT !.err = "ValueError"]
       ELSE IF parent[source].kind = "dir"
       THEN [same EXCEPT !.dump_dir.path = source]
       ELSE IF ~keep_dump
       THEN [same EXCEPT !.tmp = Append(tmp, Directory({})),
                         !.dump_dir.tmp = Len(tmp) + 1]
       ELSE IF parent[dump_dir].kind = "dir"
       THEN [same EXCEPT !.dump_dir.path = dump_dir]
       ELSE IF parent[dump_dir].kind # "absent"
       THEN [same EXCEPT !.err = "ValueError"]
       ELSE [same EXCEPT !.parent[dump_dir] = Directory({}),
                         !.dump_dir.path = dump_dir]

\* How the scope is left: the body returns, the body raises, or the generator
\* is closed without being resumed (GeneratorExit at the yield).
ExitKinds == {"return", "exception", "close"}

\* a scope whose temporary directory is removed only when the body returns
release_on_return_only(d, how) ==
    IF d.dump_dir.tmp > 0 /\ how = "return"
    THEN [d EXCEPT !.tmp[d.dump_dir.tmp] = Absent, !.err = ""]
    ELSE [d EXCEPT !.err = IF how = "exception" THEN "BodyError" ELSE ""]

\* get_dump_dir after its yield: TemporaryDirectory.__exit__ runs however the
\* with statement is left, and only GeneratorExit is caught
release(d, how) ==
    IF d.dump_dir.tmp > 0
    THEN [d EXCEPT !.tmp[d.dump_dir.tmp] = Absent,
                   !.err = IF how = "exception" THEN "BodyError" ELSE ""]
    ELSE [d EXCEPT !.err = IF how = "exception" THEN "BodyError" ELSE ""]

InitDumpDir ==
    /\ Parked
    /\ lay = LayIdle
    /\ hook = HookIdle
    /\ cli = CliIdle
    /\ zip = ZipIdle
    /\ par = ParIdle
    /\ \E source \in DdSources, keep_dump \in BOOLEAN, parent \in [DdPaths -> Nodes] :
          dd = [DdIdle EXCEPT !.pc = "call", !.source = source, !.keep_dump = keep_dump,
                              !.parent = parent, !.before = parent]

\* with get_dump_dir(source, ctx) as dump_dir:
DdAcquire ==
    /\ dd.pc = "call"
    /\ LET r == acquire(dd.parent, dd.tmp, dd.source, dd.keep_dump)
       IN dd' = [dd EXCEPT !.pc = IF r.err = "" THEN "body" ELSE "raised",
                           !.err = r.err, !.parent = r.parent, !.tmp = r.tmp,
                           !.dump_dir = r.dump_dir]
    /\ UNCHANGED <<pipe_vars, fn, zip, par, lay, hook, cli>>

\* the body of the with statement writes an entry of the dump dir
DdBodyWrite ==
    /\ dd.pc = "body"
    /\ \E e \in DumpEntries \ dd.written :
          dd' = IF dd.dump_dir.tmp > 0
                THEN [dd EXCEPT !.tmp[dd.dump_dir.tmp].entries = @ \cup {e},
                                !.written = @ \cup {e}]
                ELSE [dd EXCEPT !.parent[dd.dump_dir.path].entries = @ \cup {e},
                                !.written = @ \cup {e}]
    /\ UNCHANGED <<pipe_vars, fn, zip, par, lay, hook, cli>>

\* the scope is left
DdExit ==
    /\ dd.pc = "body"
    /\ \E how \in ExitKinds :
          dd' = release([dd EXCEPT !.pc = "exited", !.how = how], how)
    /\ UNCHANGED <<pipe_vars, fn, zip, par, lay, hook, cli>>

NextDumpDir == DdAcquire \/ DdBodyWrite \/ DdExit

SpecDumpDir == InitDumpDir /\ [][NextDumpDir]_vars

(***************************************************************************)
(* The layout normaliser on its own: move_sar_system_paths and then         *)
(* move_alternate_partition_paths, as extract_image calls them, on a dump   *)
(* dir drawn from bounded sets of directories and top-level regular files.  *)
(***************************************************************************)
\* The directories a dump dir may hold when the normaliser runs.
LayPaths ==
    { <<system>>, <<system, system>>, <<system, system, vendor>>, <<system, product>>,
      <<system, vendor>>, <<system, vendor, odm>>, <<vendor>>, <<vendor, odm>>,
      <<odm>>, <<product>>, <<system_root>> }

\* The sets of directories closed under taking the parent.
LayTrees ==
    {ds \in SUBSET LayPaths :
        \A p \in ds : Len(p) > 1 => SubSeq(p, 1, Len(p) - 1) \in ds}

\* The regular files a dump dir may hold at its top.
LayFileNames == {product, system_root}

InitLayout ==
    /\ Parked
    /\ hook = HookIdle
    /\ cli = CliIdle
    /\ zip = ZipIdle
    /\ par = ParIdle
    /\ dd = DdIdle
    /\ \E ds \in LayTrees, F \in SUBSET LayFileNames :
          /\ \A f \in F : <<f>> \notin ds
          /\ lay = [LayIdle EXCEPT !.pc = "sar",
                                   !.files = [f \in F |-> Content("raw", "unknown", f, {}, {})],
                                   !.dirs = ds, !.given = ds]

\* move_sar_system_paths(dump_dir)
LayMoveSar ==
    /\ lay.pc = "sar"
    /\ LET moved == move_sar_system_paths(lay.files, lay.dirs)
       IN lay' = [lay EXCEPT !.pc = IF moved.ok THEN "alternates" ELSE "raised_sar",
                             !.dirs = moved.dirs, !.sar = moved.dirs, !.err = moved.err]
    /\ UNCHANGED <<pipe_vars, fn, zip, par, dd, hook, cli>>

\* move_alternate_partition_paths(dump_dir)
LayMoveAlternates ==
    /\ lay.pc = "alternates"
    /\ LET moved == move_alternate_partition_paths(lay.files, lay.dirs)
       IN lay' = [lay EXCEPT !.pc = IF moved.ok THEN "returned" ELSE "raised_alternates",
                             !.dirs = moved.dirs, !.err = moved.err]
    /\ UNCHANGED <<pipe_vars, fn, zip, par, dd, hook, cli>>

NextLayout == LayMoveSar \/ LayMoveAlternates

SpecLayout == InitLayout /\ [][NextLayout]_vars

(***************************************************************************)
(* run_extract_fns on its own: a registry of patterns and callbacks, a dump *)
(* dir of regular files and directories, and callbacks that return nothing, *)
(* return the path they were given, write a file first, or raise.           *)
(***************************************************************************)
RECURSIVE Join(_, _)
\* sep.join(parts), the parts and the result as lists of tokens
Join(parts, sep) ==
    IF parts = <<>> THEN <<>>
    ELSE IF Len(parts) = 1 THEN parts[1]
    ELSE parts[1] \o <<sep>> \o Join(Tail(parts), sep)

\* a name as the string the pattern is matched against
Flat(name) == Join([c \in 1..Len(name) |-> Join([k \in 1..Len(name[c]) |-> <<name[c][k]>>], "_")], ".")

\* re.match(extract_pattern, file.name) for a pattern that is a literal name:
\* the pattern matches at the start of the name
re_match(extract_pattern, name) == IsPrefix(Flat(extract_pattern), Flat(name))

\* a scan that keeps the regular files only
scandir_files_only(files_, dirs_) == files_

\* os.scandir(dump_dir): every entry, regular file or directory
scandir(files_, dirs_) == files_ \cup dirs_

\* The entries tried.
HookFiles == {Img(system), Img(system_ext)}

HookDirs == {system}

\* The file a callback may write.
HookOutput == Img(system_ext)

\* The registries tried: a dict of at most two patterns, each with one or two callbacks.
HookPatterns == {system, Img(system)}

HookFns == {<<"f">>, <<"f", "g">>, <<"g", "f">>}

Registries ==
    {r \in UNION {[1..n -> [pattern : HookPatterns, fns : HookFns]] : n \in 0..2} :
        \A a, b \in 1..Len(r) : r[a].pattern = r[b].pattern => a = b}

\* What a call of a callback does.
HookOutcomes == {"none", "consumed", "wrote", "raise"}

InitHook ==
    /\ Parked
    /\ cli = CliIdle
    /\ zip = ZipIdle
    /\ par = ParIdle
    /\ dd = DdIdle
    /\ lay = LayIdle
    /\ \E r \in Registries, F \in SUBSET HookFiles, D \in SUBSET HookDirs :
          hook = [HookIdle EXCEPT !.pc = "scan", !.extract_fns = r, !.files = F, !.dirs = D]

\* the os.scandir loop for the next pattern
HookScan ==
    /\ hook.pc = "scan"
    /\ hook.k <= Len(hook.extract_fns)
    /\ \E order \in Orderings({n \in scandir(hook.files, hook.dirs) :
                                  re_match(hook.extract_fns[hook.k].pattern, n)}) :
          hook' = [hook EXCEPT !.pc = "call", !.found_files = order, !.i = 1, !.j = 1,
                               !.processed_files = {},
                               !.seen = Append(@, hook.files \cup hook.dirs)]
    /\ UNCHANGED <<pipe_vars, fn, zip, par, dd, lay, cli>>

\* processed_file = extract_fn(ctx, file_path, dump_dir)
HookCall ==
    /\ hook.pc = "call"
    /\ hook.i <= Len(hook.found_files)
    /\ \E outcome \in HookOutcomes :
          LET fns == hook.extract_fns[hook.k].fns
              file_path == hook.found_files[hook.i]
              called == [hook EXCEPT
                           !.log = Append(@, [op |-> "call", k |-> hook.k,
                                              file |-> file_path, fn |-> fns[hook.j]]),
                           !.i = IF hook.j = Len(fns) THEN @ + 1 ELSE @,
                           !.j = IF hook.j = Len(fns) THEN 1 ELSE @ + 1]
          IN hook' = IF outcome = "raise"
                     THEN [called EXCEPT !.pc = "raised", !.err = "HookError"]
                     ELSE IF outcome = "none" THEN called
                     ELSE IF outcome = "consumed"
                     THEN [called EXCEPT !.processed_files = @ \cup {file_path}]
                     ELSE [called EXCEPT !.processed_files = @ \cup {file_path},
                                         !.files = @ \cup {HookOutput}]
    /\ UNCHANGED <<pipe_vars, fn, zip, par, dd, lay, cli>>

\* the loop over found_files is over: remove_file_paths(processed_files)
HookLoopEnd ==
    /\ hook.pc = "call"
    /\ hook.i > Len(hook.found_files)
    /\ hook' = [hook EXCEPT !.pc = "remove", !.todo = hook.processed_files]
    /\ UNCHANGED <<pipe_vars, fn, zip, par, dd, lay, cli>>

\* os.remove(file_path), the set in any order; a directory raises
HookRemove ==
    /\ hook.pc = "remove"
    /\ \E file_path \in hook.todo :
          hook' = IF file_path \in hook.dirs
                  THEN [hook EXCEPT !.pc = "raised", !.err = "IsADirectoryError"]
                  ELSE [hook EXCEPT !.files = @ \ {file_path},
                                    !.todo = @ \ {file_path},
                                    !.log = Append(@, [op |-> "remove", k |-> hook.k,
                                                       file |-> file_path, fn |-> ""])]
    /\ UNCHANGED <<pipe_vars, fn, zip, par, dd, lay, cli>>

\* remove_file_paths has returned: the next pattern
HookNext ==
    /\ hook.pc = "remove"
    /\ hook.todo = {}
    /\ hook' = [hook EXCEPT !.pc = "scan", !.k = @ + 1]
    /\ UNCHANGED <<pipe_vars, fn, zip, par, dd, lay, cli>>

\* the loop over ctx.extract_fns is over
HookReturn ==
    /\ hook.pc = "scan"
    /\ hook.k > Len(hook.extract_fns)
    /\ hook' = [hook EXCEPT !.pc = "returned"]
    /\ UNCHANGED <<pipe_vars, fn, zip, par, dd, lay, cli>>

NextHook == HookScan \/ HookCall \/ HookLoopEnd \/ HookRemove \/ HookNext \/ HookReturn

SpecHook == InitHook /\ [][NextHook]_vars

(***************************************************************************)
(* The command line on its own: --partitions and --extra-partitions drawn   *)
(* from bounded sets of lists, concatenated, given to ExtractCtx, and       *)
(* pruned against the directories of the dump dir.                          *)
(***************************************************************************)
\* The names given on the command line.
CliNames == {system, vendor, boot}

\* nargs='+': a list of at least one name
CliLists == UNION {[1..k -> CliNames] : k \in 1..MaxWanted}

InitCli ==
    /\ Parked
    /\ zip = ZipIdle
    /\ par = ParIdle
    /\ dd = DdIdle
    /\ lay = LayIdle
    /\ hook = HookIdle
    /\ \E partitions \in CliLists \cup {DEFAULT_EXTRACTED_PARTITIONS},
          extra \in {[given |-> FALSE, list |-> <<>>]}
                       \cup {[given |-> TRUE, list |-> l] : l \in CliLists},
          D \in SUBSET {system, vendor} :
          cli = [CliIdle EXCEPT !.pc = "parsed", !.partitions = partitions,
                                !.extra_partitions = extra, !.dirs = {<<p>> : p \in D}]

\* extract_partitions = args.partitions, and += args.extra_partitions on that
\* same list when the option was given
CliConcat ==
    /\ cli.pc = "parsed"
    /\ LET extract_partitions == IF cli.extra_partitions.given
                                 THEN cli.partitions \o cli.extra_partitions.list
                                 ELSE cli.partitions
       IN cli' = [cli EXCEPT !.pc = "concatenated", !.partitions = extract_partitions,
                             !.extract_partitions = extract_partitions]
    /\ UNCHANGED <<pipe_vars, fn, zip, par, dd, lay, hook>>

\* ctx = ExtractCtx(keep_dump=True, extract_partitions=extract_partitions, ...)
CliConstruct ==
    /\ cli.pc = "concatenated"
    /\ cli' = [cli EXCEPT !.pc = "constructed", !.ctx = ExtractCtx(cli.extract_partitions)]
    /\ UNCHANGED <<pipe_vars, fn, zip, par, dd, lay, hook>>

\* filter_already_extracted_partitions(dump_dir, ctx), no regular file in the way
CliPrune ==
    /\ cli.pc = "constructed"
    /\ LET left == not_extracted_partitions(cli.dirs, cli.ctx.extract_partitions)
       IN cli' = [cli EXCEPT !.ctx.extract_partitions = left,
                             !.pc = IF left = <<>> THEN "done" ELSE "extract_image"]
    /\ UNCHANGED <<pipe_vars, fn, zip, par, dd, lay, hook>>

NextCli == CliConcat \/ CliConstruct \/ CliPrune

SpecCli == InitCli /\ [][NextCli]_vars

(***************************************************************************)
(* Properties.                                                             *)
(***************************************************************************)
\* The stage has completed and the next one has not begun.
Completed(stage, next) ==
    /\ trace # <<>>
    /\ trace[Len(trace)] = stage
    /\ pc = next

\* extract_image was entered and returned normally.
Returned == pc = "done" /\ trace # <<>>

SuperBatches == {i \in 1..Len(batches) : batches[i].stage = "super"}

\* C1: when extract_image returns normally, every partition that was requested
\* at its entry (after the resume prune) has a directory in dump_dir, an empty
\* stub if no container layer produced it.
C1_RequestedAreDirs ==
    Returned => \A p \in Range(entry_partitions) : IsDir(dirs, <<p>>)

\* The first run completed and left a directory for every requested partition.
FirstProducedAll ==
    /\ resumed
    /\ first.pc = "done"
    /\ \A p \in Range(args.partitions) : IsDir(first.dirs, <<p>>)

\* C2: after a first run that produced every requested partition, the re-run
\* with the same source and arguments prunes the request to nothing, never
\* enters extract_image, spawns no helper and leaves dump_dir as it was.
C2_IdempotentResume ==
    FirstProducedAll =>
        /\ trace = <<>>
        /\ helpers = 0
        /\ files = first.files
        /\ dirs = first.dirs
        /\ pc \in {"get_dump_dir", "prune", "done"}
        /\ pc = "done" => ctx.extract_partitions = <<>>

C2_Witness == FirstProducedAll /\ pc = "done" /\ first.dirs # {}

\* C3: a requested partition for which a completed run produced nothing was
\* stubbed, so the re-run on the same dump dir does not retry: it unpacks no
\* archive and spawns no helper.
C3_NoRetry ==
    (resumed /\ first.pc = "done") => (trace = <<>> /\ helpers = 0)

\* The order of the stages as specified; the layout normaliser is the two steps
\* "sar" and "alternates".
StageOrder ==
    << "unpack", "hook1", "payload", "sparse_raw", "super", "refine", "brotli",
       "sparse_data", "erofs", "ext4", "hook2", "sar", "alternates", "stub" >>

\* C4: in every run the stages begin in the fixed order unpack, hook pass 1,
\* payload, sparse_raw, super, refine, brotli, sparse_data, erofs, ext4, hook
\* pass 2, layout normalisation, stubbing; a stage begins only when the one
\* before it has finished, and none is skipped or repeated.
C4_StageOrder ==
    /\ IsPrefix(trace, StageOrder)
    /\ pc \in Range(StageOrder) => pc = StageOrder[Len(trace) + 1]
    /\ pc = "payload_loop" => trace[Len(trace)] = "payload"
    /\ pc = "super_loop" => trace[Len(trace)] = "super"
    /\ Returned => trace = StageOrder

C4_Witness == Returned /\ helpers > 0 /\ trace = StageOrder

\* The files of dump_dir that show a format / carry an extension.
OfMagic(magic) == {f \in DOMAIN files : Magic(files[f]) = magic}

OfExt(ext) == {f \in DOMAIN files : EndsWith(f, ext)}

\* The names a list covers: the files named so, or whose prefix before the first
\* '.' is in the list.
Covered(list) ==
    {f \in DOMAIN files : f \in Range(list) \/ file_name_to_partition(f) \in Range(list)}

\* C5 as stated: after every stage that completes, no file of the stage's input
\* format remains in dump_dir.
C5_NoInputFormatRemains ==
    /\ Completed("payload", "sparse_raw") => OfMagic("payload") = {}
    /\ Completed("sparse_raw", "super") => OfMagic("sparse_raw") = {}
    /\ Completed("super", "refine") => OfMagic("super") = {}
    /\ Completed("brotli", "sparse_data") => OfExt(BROTLI_EXT) = {}
    /\ Completed("sparse_data", "erofs") => OfExt(SPARSE_DATA_EXT) = {}
    /\ Completed("erofs", "ext4") => OfMagic("erofs") = {}
    /\ Completed("ext4", "hook2") => OfMagic("ext4") = {}

\* C5 amended: after every stage that completes, no file of the stage's input
\* format remains among the names the stage scans for: payload.bin in stage 4,
\* the requested partitions and super in stage 5, super.img in stage 6, the
\* refined requested partitions in stages 8 to 11.
C5_NoScannedInputRemains ==
    /\ Completed("payload", "sparse_raw") =>
          OfMagic("payload") \cap Covered(<<PAYLOAD_BIN_FILE_NAME>>) = {}
    /\ Completed("sparse_raw", "super") =>
          OfMagic("sparse_raw")
             \cap Covered(ctx.extract_partitions \o <<SUPER_PARTITION_NAME>>) = {}
    /\ Completed("super", "refine") =>
          OfMagic("super") \cap Covered(<<SUPER_IMG_NAME>>) = {}
    /\ Completed("brotli", "sparse_data") =>
          OfExt(BROTLI_EXT) \cap Covered(ctx.extract_partitions) = {}
    /\ Completed("sparse_data", "erofs") =>
          OfExt(SPARSE_DATA_EXT) \cap Covered(ctx.extract_partitions) = {}
    /\ Completed("erofs", "ext4") =>
          OfMagic("erofs") \cap Covered(ctx.extract_partitions) = {}
    /\ Completed("ext4", "hook2") =>
          OfMagic("ext4") \cap Covered(ctx.extract_partitions) = {}

\* Stage 5 converted a requested sparse image and left another partition's alone.
C5_Witness ==
    /\ Completed("sparse_raw", "super")
    /\ helpers > 0
    /\ Img(system) \in DOMAIN files
    /\ Img(boot) \in OfMagic("sparse_raw")

\* C6: after a run that succeeds, for every <p>.new.dat merged in stage 9 the
\* file, its <p>.transfer.list and, once dumped, the <p>.img made of it are gone.
C6_NoIntermediates ==
    Returned =>
        \A f \in merged :
            /\ f \notin DOMAIN files
            /\ transfer_list(f) \notin DOMAIN files
            /\ IsDir(dirs, <<partition_dir(sparse_data_output(f))>>)
                  => sparse_data_output(f) \notin DOMAIN files

\* C7: after stage 6, for every partition p that super.img yielded as p_a, no
\* p_a.img remains and p.img exists and holds the image unpacked for p_a.
C7_SlotInvariance ==
    Completed("super", "refine") =>
        \A i \in SuperBatches : \A p \in Range(batches[i].wanted) :
            WithSlot(p, <<"a">>) \in Range(batches[i].ret_success) =>
                /\ Img(WithSlot(p, <<"a">>)) \notin DOMAIN files
                /\ Img(p) \in DOMAIN files
                /\ files[Img(p)].of = WithSlot(p, <<"a">>)

\* C8: unslot removes exactly a trailing _a or _b and returns every other name
\* the super stage can probe unchanged.
C8_UnslotStripsSlotOnly ==
    fn.pc \in {"unslotted", "returned"} => fn.unslotted = strip_slot(fn.name)

\* C9: if the unslotted probe p and the slotted probe p_a of one partition both
\* unpack from super.img, the run aborts.
C9_DuplicateAborts ==
    \A i \in SuperBatches :
        (\E p \in Range(batches[i].wanted) :
            /\ p \in Range(batches[i].ret_success)
            /\ WithSlot(p, <<"a">>) \in Range(batches[i].ret_success))
        => pc = "aborted"

\* The first components of the alternate paths of the names of a set.
AlternatesOf(S) == {AlternatePath(p)[1] : p \in {q \in S : AlternatePath(q) # <<>>}}

\* C10: find_alternates(wanted, found) returns exactly the first path components
\* of the alternates of wanted \ found that are in neither wanted nor found.
C10_AlternatesAreNew ==
    fn.pc = "returned" =>
        Range(fn.alternates)
            = AlternatesOf(Range(fn.wanted) \ fn.found) \ (Range(fn.wanted) \cup fn.found)

\* The iterations the find-alternates loop of a stage has made in the current run.
LoopBatches(stage) == SelectSeq(batches, LAMBDA b : b.stage = stage)

\* The stages that hold a find-alternates loop: the archive filter (in the unpack
\* and in the refine step), the payload stage and the super stage.
LoopStages == {"unpack", "payload", "super", "refine"}

\* The names a loop that starts from a wanted list can consider.
PARTITION_SET(initial) ==
    Range(initial) \cup {ALTERNATE_PARTITION_PATH_MAP[i].path[1] :
                            i \in 1..Len(ALTERNATE_PARTITION_PATH_MAP)}

\* C11: every find-alternates loop (archive filter, payload stage, super stage)
\* ends, having made at most |PARTITION_SET| iterations, PARTITION_SET being the
\* initial wanted names and the first components of the alternate map.  Every
\* iteration adds one entry to batches, so the bound on the entries at every
\* moment is the bound on the iterations, and a loop that is left has wanted empty.
C11_LoopBound ==
    /\ \A stage \in LoopStages :
          LET made == LoopBatches(stage)
          IN made # <<>> => Len(made) <= Cardinality(PARTITION_SET(made[1].wanted))
    /\ pc \in {"payload_loop", "super_loop"} => wanted # <<>>
    /\ (Completed("payload", "sparse_raw") \/ Completed("super", "refine")) => wanted = <<>>

\* A loop went on to an alternate of an alternate and ended.
C11_Witness ==
    /\ Completed("super", "refine")
    /\ Len(LoopBatches("unpack")) = 3
    /\ Len(LoopBatches("super")) = 2

\* C12: within one find-alternates loop no partition name is probed, or
\* filtered for, in more than one iteration.
C12_NoNameTwice ==
    \A stage \in LoopStages :
        LET made == LoopBatches(stage)
        IN \A i, j \in 1..Len(made) :
              i < j => Range(made[i].wanted) \cap Range(made[j].wanted) = {}

\* C13: every simg2img command line of stage 5 lists the chunks of its partition
\* image in ascending integer index order, whatever the scan order was, followed
\* by the output path; a single sparse file goes in as <file>_sparsechunk.0; and
\* no chunk found for the stage is left out of the command lines.
C13_ChunkOrder ==
    /\ \A c \in cmds :
          LET n == Len(c.argv)
          IN /\ n >= 2
             /\ c.argv[n] = c.input_id
             /\ \A i \in 1..(n - 1) :
                   /\ IsChunk(c.argv[i])
                   /\ ChunkOutput(c.argv[i]) = c.input_id
             /\ \A i, j \in 1..(n - 1) :
                   i < j => partition_chunk_index(c.argv[i]) <= partition_chunk_index(c.argv[j])
    /\ (pc = "aborted" /\ err = "ValueError" /\ trace # <<>>
           /\ trace[Len(trace)] = "sparse_raw") =>
          \A f \in OfMagic("sparse_raw")
                      \cap Covered(ctx.extract_partitions \o <<SUPER_PARTITION_NAME>>) :
              /\ IsChunk(f)
              /\ \E c \in cmds : f \in Range(c.argv)

\* Stage 5 merged a set of two chunks.
C13_Witness ==
    /\ Completed("sparse_raw", "super")
    /\ \E c \in cmds :
          /\ Len(c.argv) = 3
          /\ partition_chunk_index(c.argv[1]) < partition_chunk_index(c.argv[2])

\* The stages whose batch is run with fatal=True.
FatalStages == {"sparse_raw", "brotli", "sparse_data", "erofs", "ext4"}

\* The stages whose batch is a best-effort probe.
ProbeStages == {"payload", "super"}

\* C15: in stages 5, 8, 9, 10 and 11 a helper that exits non-zero aborts
\* extract_image with an error: the run ends in that stage, and no later stage,
\* hook pass 2, layout normalisation or stub creation begins.
C15_FatalAborts ==
    \A r \in failed :
        r.stage \in FatalStages =>
            /\ pc = "aborted"
            /\ err = "ValueError"
            /\ trace[Len(trace)] = r.stage

\* A decoder of stage 10 crashed after stage 5 had succeeded.
C15_Witness ==
    /\ \E r \in failed : r.stage = "erofs"
    /\ cmds # {}

\* C16: in stages 4 and 6 a probe that exits non-zero never aborts the run: the
\* name is not among the successes, the loop goes on, and when the stage is
\* left the container file is deleted and the next stage is the one to begin.
C16_ProbeMissTolerated ==
    /\ \A r \in failed :
          r.stage \in ProbeStages =>
             /\ ~(pc = "aborted" /\ trace[Len(trace)] = r.stage)
             /\ \A i \in 1..Len(batches) :
                   batches[i].stage = r.stage
                      => r.input_id \notin Range(batches[i].ret_success)
    /\ (Completed("payload", "sparse_raw") /\ LoopBatches("payload") # <<>>) =>
          PAYLOAD_BIN_FILE_NAME \notin DOMAIN files
    /\ (Completed("super", "refine") /\ LoopBatches("super") # <<>>) =>
          SUPER_IMG_NAME \notin DOMAIN files

\* Stage 6 went on after probes that missed and stage 4 had done the same.
C16_Witness ==
    /\ Completed("super", "refine")
    /\ \E r \in failed : r.stage = "super"
    /\ \E r \in failed : r.stage = "payload"
    /\ Len(LoopBatches("super")) > 1

\* The tasks of extract_zip that have opened their output file.
Written == {k \in 1..Len(zip.tasks) : zip.tasks[k].state \in {"writing", "done"}}

\* The combined partition allowlist and file allowlist of a context.
AllowedPartitions(c) ==
    Range(c.extract_partitions \o c.firmware_partitions \o c.extra_partitions)

AllowedFiles(c) == Range(c.firmware_files \o c.factory_files \o c.extra_files)

\* A base name that the file allowlist or the partitions P let through.
Allowlisted(c, P, file_name) ==
    \/ file_name \in AllowedFiles(c)
    \/ file_name \in P
    \/ file_name_to_partition(file_name) \in P

RECURSIVE AlternateClosure(_)
\* The names reached from S by taking first components of alternate paths.
AlternateClosure(S) ==
    IF AlternatesOf(S) \subseteq S THEN S ELSE AlternateClosure(S \cup AlternatesOf(S))

\* C14 as stated: with extract_all off and no hooks, every member written to
\* dump_dir has a base name in the file allowlist, or is named, or prefixed
\* before the first dot, by a requested, firmware or extra partition.
C14_FilterSoundness ==
    ~zip.c.extract_all =>
        \A k \in Written :
            Allowlisted(zip.c, AllowedPartitions(zip.c), zip.tasks[k].output_file_path)

\* C14 amended: with extract_all off and no hooks, every member written to
\* dump_dir has a base name in the file allowlist, or is named, or prefixed
\* before the first dot, by a requested, firmware or extra partition or by a
\* partition the alternate map leads to from one of those.
C14_FilterSoundnessAlternates ==
    ~zip.c.extract_all =>
        \A k \in Written :
            Allowlisted(zip.c, AlternateClosure(AllowedPartitions(zip.c)),
                        zip.tasks[k].output_file_path)

\* product was requested and system.img, where it may live, was written while a
\* member nobody asked for was left out.
C14_Witness ==
    /\ zip.pc = "returned"
    /\ ~zip.c.extract_all
    /\ zip.c.extract_partitions = <<product>>
    /\ Len(zip.namelist) > Len(zip.tasks)
    /\ \E k \in Written : zip.tasks[k].output_file_path = Img(system)

\* C17: with fatal=False process_cmds_in_parallel never raises because of an
\* exit code, and in what it returns every submitted label appears exactly once:
\* in ret_success iff its process exited 0, otherwise in ret_fail with its exit
\* code and its stderr.
C17_NonFatalResults ==
    ~par.fatal =>
        /\ par.pc # "raised"
        /\ par.pc = "returned" =>
              /\ Len(par.ret_success) + Len(par.ret_fail) = Len(par.input_cmds)
              /\ \A k \in 1..Len(par.input_cmds) :
                    IF par.returncode[k] = 0
                    THEN /\ Cardinality({j \in 1..Len(par.ret_success) :
                                            par.ret_success[j] = par.input_cmds[k]}) = 1
                         /\ \A j \in 1..Len(par.ret_fail) :
                               par.ret_fail[j][1] # par.input_cmds[k]
                    ELSE /\ Cardinality({j \in 1..Len(par.ret_fail) :
                                par.ret_fail[j] = <<par.input_cmds[k], par.returncode[k],
                                                    StderrOf(k)>>}) = 1
                         /\ Cardinality({j \in 1..Len(par.ret_fail) :
                                par.ret_fail[j][1] = par.input_cmds[k]}) = 1
                         /\ par.input_cmds[k] \notin Range(par.ret_success)

\* A batch with successes and failures was returned.
C17_Witness ==
    /\ ~par.fatal
    /\ par.pc = "returned"
    /\ par.ret_success # <<>>
    /\ par.ret_fail # <<>>

\* C18: when process_cmds_in_parallel returns or raises, every child process it
\* spawned has been waited on.
C18_NoOrphans ==
    par.pc \in {"returned", "raised"} =>
        \A k \in 1..Len(par.input_procs) : par.input_procs[k].state = "waited"

\* C19: no two worker tasks of extract_zip write the same output path: every
\* selected member is submitted once and distinct members have distinct outputs.
C19_DistinctOutputs ==
    \A j, k \in 1..Len(zip.tasks) :
        j # k =>
            /\ zip.tasks[j].file_path # zip.tasks[k].file_path
            /\ zip.tasks[j].output_file_path # zip.tasks[k].output_file_path

\* C20: when process_cmds_in_parallel returns normally every helper has ended
\* and been collected, and when extract_zip returns every worker task has
\* closed its output: what they wrote is there for the next scan.
C20_JoinedOnReturn ==
    /\ par.pc = "returned" =>
          /\ Len(par.input_procs) = Len(par.input_cmds)
          /\ \A k \in 1..Len(par.input_procs) : par.input_procs[k].state = "waited"
    /\ zip.pc = "returned" =>
          /\ Len(zip.tasks) = Len(zip.file_paths)
          /\ \A k \in 1..Len(zip.tasks) : zip.tasks[k].state = "done"

\* extract_zip returned after two workers had been copying at once.
C20_Witness ==
    /\ zip.pc = "returned"
    /\ Len(zip.tasks) = MaxMembers

(***************************************************************************)
(* The state a stopped run leaves in a persistent dump dir.                *)
(***************************************************************************)
\* extract_image was entered and has returned or raised
Stopped == pc \in {"done", "aborted"} /\ entry_partitions # <<>>

\* the container and image files of dump_dir that belong to a partition
UnfinishedOf(p) == {f \in DOMAIN files : file_name_to_partition(f) = p}

\* C21: wherever a run on a persistent dump dir stops, by return or by an
\* abort in any stage, no attempted partition has both its directory
\* dump_dir/p and an unfinished container or image file of its own in dump_dir.
C21_DirOrFileNeverBoth ==
    Stopped /\ ctx.keep_dump =>
        \A p \in Range(entry_partitions) : ~(IsDir(dirs, <<p>>) /\ UnfinishedOf(p) # {})

(***************************************************************************)
(* The scope of get_dump_dir.                                              *)
(***************************************************************************)
\* the node the yielded dump dir names now
DumpDirNode ==
    IF dd.dump_dir.tmp > 0 THEN dd.tmp[dd.dump_dir.tmp] ELSE dd.parent[dd.dump_dir.path]

\* a file source with keep_dump = false
Ephemeral == dd.before[dd.source].kind = "file" /\ ~dd.keep_dump

\* what the dump dir held when get_dump_dir was called
EntriesBefore ==
    IF dd.dump_dir.tmp = 0 /\ dd.before[dd.dump_dir.path].kind = "dir"
    THEN dd.before[dd.dump_dir.path].entries
    ELSE {}

\* C22: when the get_dump_dir scope has been left, by return, by an exception
\* of the body or by closing the generator, the dump dir is gone if and only
\* if it was ephemeral (file source, keep_dump = false); a directory source
\* and a persistent sibling are still directories holding what they held and
\* what the body wrote.
C22_DeletedIffEphemeral ==
    dd.pc = "exited" =>
        /\ (DumpDirNode = Absent) <=> Ephemeral
        /\ ~Ephemeral => DumpDirNode = Directory(EntriesBefore \cup dd.written)

C22_Witness ==
    /\ dd.pc = "exited"
    /\ dd.how = "exception"
    /\ Ephemeral
    /\ dd.written # {}
    /\ DumpDirNode = Absent

\* the path get_dump_dir derives from a file source: path.splitext(source)[0]
Sibling == splitext(dd.source)

\* every path but the dump dir is as it was when get_dump_dir was called
OthersUntouched == \A q \in DdPaths \ {dd.dump_dir.path} : dd.parent[q] = dd.before[q]

\* C23: with a file source and keep_dump = true the dump dir that is yielded
\* is the source path without its extension; it was created when it was
\* absent, and when it was a directory it is that directory with the entries
\* it held, acquisition having touched neither them nor any other path.
C23_PersistentSibling ==
    dd.pc = "body" /\ dd.before[dd.source].kind = "file" /\ dd.keep_dump =>
        /\ dd.dump_dir = [tmp |-> 0, path |-> Sibling]
        /\ dd.tmp = <<>>
        /\ dd.before[Sibling].kind \in {"absent", "dir"}
        /\ DumpDirNode = Directory(EntriesBefore \cup dd.written)
        /\ OthersUntouched

C23_Witness ==
    /\ dd.pc = "body"
    /\ dd.keep_dump
    /\ dd.before[dd.source].kind = "file"
    /\ dd.before[Sibling] = Directory({system})
    /\ dd.written = {}
    /\ dd.parent = dd.before

\* get_dump_dir was called on a file source whose sibling path exists and is
\* not a directory
SiblingInTheWay ==
    /\ dd.pc \in {"raised", "body", "exited"}
    /\ dd.before[dd.source].kind = "file"
    /\ dd.before[Sibling].kind \notin {"absent", "dir"}

\* get_dump_dir raised 'Unexpected file type' and made no directory
FailedCleanly ==
    /\ dd.pc = "raised"
    /\ dd.err = "ValueError"
    /\ dd.parent = dd.before
    /\ dd.tmp = <<>>

\* C24 as stated: with a file source whose sibling path exists and is not a
\* directory, get_dump_dir fails with 'unexpected file type' whatever
\* keep_dump is, and creates no directory.
C24_SiblingNotDirFails == SiblingInTheWay => FailedCleanly

\* C24 amended: with such a source get_dump_dir fails with 'unexpected file
\* type' and creates no directory when keep_dump = true; when keep_dump =
\* false the sibling path is not looked at, a fresh temporary directory is
\* yielded, and the sibling is left as it was.
C24_SiblingNotDirFailsWhenKept ==
    SiblingInTheWay =>
        IF dd.keep_dump THEN FailedCleanly
        ELSE /\ dd.pc # "raised"
             /\ dd.dump_dir = [tmp |-> 1, path |-> <<>>]
             /\ dd.parent = dd.before

C24_Witness ==
    /\ SiblingInTheWay
    /\ dd.keep_dump
    /\ dd.source # Sibling
    /\ dd.before[Sibling] = Special
    /\ FailedCleanly

(***************************************************************************)
(* The prune before the pipeline.                                          *)
(***************************************************************************)
\* the requested names whose path in dump_dir is something other than a directory
InTheWay == {p \in Range(ctx.extract_partitions) :
                PathExists(files, dirs, <<p>>) /\ ~IsDir(dirs, <<p>>)}

\* the requested names, in order, that have no path in dump_dir
Missing == SelectSeq(ctx.extract_partitions, LAMBDA p : ~PathExists(files, dirs, <<p>>))

\* C25: the prune before the pipeline fails the run when some requested
\* dump_dir/p exists and is not a directory; otherwise it leaves in
\* requested_partitions exactly its names, in order, for which dump_dir/p does
\* not exist, and extract_image is entered only when that list is not empty.
C25_ResumePrune ==
    [][pc = "prune" =>
          IF InTheWay # {}
          THEN pc' = "aborted" /\ err' = "ValueError" /\ entry_partitions' = <<>>
          ELSE /\ ctx'.extract_partitions = Missing
               /\ pc' = IF Missing = <<>> THEN "done" ELSE "augment"
               /\ entry_partitions' = <<>>]_vars

\* the second run was pruned to a shorter list that is not empty
C25_Witness ==
    /\ pc = "augment"
    /\ resumed
    /\ ctx.extract_partitions # <<>>
    /\ Len(ctx.extract_partitions) < Len(args.partitions)

(***************************************************************************)
(* The layout normaliser.                                                  *)
(***************************************************************************)
\* the directories below a path, named from that path
Below(ds, path) ==
    {SubSeq(q, Len(path) + 1, Len(q)) : q \in {x \in ds : IsPrefix(path, x) /\ x # path}}

\* C26: if dump_dir/system/system is a directory when move_sar_system_paths
\* runs, then afterwards dump_dir/system_root exists, dump_dir/system holds
\* what dump_dir/system/system held, and there is no dump_dir/system/system;
\* if it is not a directory, the step moves nothing.
C26_SarNormalised ==
    lay.pc \in {"alternates", "raised_sar"} =>
        IF IsDir(lay.given, <<system, system>>)
        THEN /\ IsDir(lay.sar, <<system_root>>)
             /\ Below(lay.sar, <<system>>) = Below(lay.given, <<system, system>>)
             /\ ~PathExists(lay.files, lay.sar, <<system, system>>)
        ELSE lay.sar = lay.given

RECURSIVE Relocate(_, _, _)
\* the relocation as C27 words it: in map order, alt goes to dump_dir/p when
\* dump_dir/p is missing and dump_dir/alt is a directory
Relocate(fs, ds, i) ==
    IF i > Len(ALTERNATE_PARTITION_PATH_MAP) THEN ds
    ELSE LET e == ALTERNATE_PARTITION_PATH_MAP[i]
         IN IF ~PathExists(fs, ds, <<e.partition>>) /\ IsDir(ds, e.path)
            THEN Relocate(fs, MoveTree(ds, e.path, <<e.partition>>), i + 1)
            ELSE Relocate(fs, ds, i + 1)

\* C27: move_alternate_partition_paths goes through product, system_ext,
\* vendor, odm in that order and moves dump_dir/alt to dump_dir/p exactly when
\* dump_dir/p is missing and dump_dir/alt is a directory: an existing
\* dump_dir/p is never replaced, and an odm nested at system/vendor/odm ends
\* at dump_dir/odm when neither vendor nor odm was there.
C27_AlternatesRelocated ==
    lay.pc \in {"returned", "raised_alternates"} =>
        /\ lay.dirs = Relocate(lay.files, lay.sar, 1)
        /\ (/\ IsDir(lay.sar, <<system, vendor, odm>>)
            /\ ~PathExists(lay.files, lay.sar, <<vendor>>)
            /\ ~PathExists(lay.files, lay.sar, <<odm>>)) => IsDir(lay.dirs, <<odm>>)

(***************************************************************************)
(* The hook pass.                                                          *)
(***************************************************************************)
\* the entries of dump_dir that matched the k-th pattern when it was scanned
Scanned(k) == {n \in hook.seen[k] : re_match(hook.extract_fns[k].pattern, n)}

\* every callback of the k-th pattern has been called on every entry it
\* matched, before position r of the log
FullyCalledBefore(k, r) ==
    \A e \in Scanned(k), fn_ \in Range(hook.extract_fns[k].fns) :
        \E n \in 1..(r - 1) :
            hook.log[n] = [op |-> "call", k |-> k, file |-> e, fn |-> fn_]

\* the place of a callback in the list registered for the k-th pattern
Registered(k, fn_) ==
    CHOOSE x \in 1..Len(hook.extract_fns[k].fns) : hook.extract_fns[k].fns[x] = fn_

\* C28: in a hook pass every callback registered for a pattern is called, in
\* registration order, on every entry of dump_dir, file or directory, whose
\* name matched the pattern when it was scanned; a file reported as consumed
\* is removed only after all callbacks have been called on all entries of that
\* scan, and no path is removed twice in a scan.
C28_HookPass ==
    /\ \A a, b \in 1..Len(hook.log) :
          (/\ a < b
           /\ hook.log[a].op = "call" /\ hook.log[b].op = "call"
           /\ hook.log[a].k = hook.log[b].k /\ hook.log[a].file = hook.log[b].file)
          => Registered(hook.log[a].k, hook.log[a].fn) < Registered(hook.log[b].k, hook.log[b].fn)
    /\ \A n \in 1..Len(hook.log) :
          hook.log[n].op = "call" => hook.log[n].file \in Scanned(hook.log[n].k)
    /\ \A k \in 1..Len(hook.seen) :
          (k < hook.k \/ hook.pc = "remove") => FullyCalledBefore(k, Len(hook.log) + 1)
    /\ hook.pc = "returned" => Len(hook.seen) = Len(hook.extract_fns)
    /\ \A r \in 1..Len(hook.log) :
          hook.log[r].op = "remove" => FullyCalledBefore(hook.log[r].k, r)
    /\ \A a, b \in 1..Len(hook.log) :
          (/\ a < b
           /\ hook.log[a].op = "remove" /\ hook.log[b].op = "remove"
           /\ hook.log[a].k = hook.log[b].k)
          => hook.log[a].file # hook.log[b].file

\* a pass over two patterns has returned: a directory was among the entries
\* called on, two callbacks consumed the same file, and it was removed
C28_Witness ==
    /\ hook.pc = "returned"
    /\ Len(hook.extract_fns) = 2
    /\ \E n \in 1..Len(hook.log) : hook.log[n].op = "call" /\ hook.log[n].file \in hook.dirs
    /\ \E n \in 1..Len(hook.log) : hook.log[n].op = "remove"
    /\ \E k \in 1..2 : Cardinality(Scanned(k)) >= 2 /\ Len(hook.extract_fns[k].fns) = 2

(***************************************************************************)
(* The context after extract_image.                                        *)
(***************************************************************************)
\* the context extract_image was called with
CtxAtCall == [ExtractCtx(args.partitions) EXCEPT !.extract_partitions = entry_partitions]

\* C29 as stated: when extract_image has returned or raised, the context's
\* requested_partitions, extra_partitions and extra_files are what they were
\* at the call.
C29_CallerFieldsUntouched ==
    Stopped =>
        /\ ctx.extract_partitions = CtxAtCall.extract_partitions
        /\ ctx.extra_partitions = CtxAtCall.extra_partitions
        /\ ctx.extra_files = CtxAtCall.extra_files

\* C29 amended: extract_image changes the context it is given.  When it has
\* returned or raised, extra_partitions is its value at the call with super
\* appended and extra_files its value with payload.bin appended;
\* requested_partitions is its value at the call until stage 7, which replaces
\* it by names, each once, of the requested partitions and their alternates;
\* the other fields are as they were.
C29_ContextMutatedInPlace ==
    Stopped =>
        /\ ctx.extra_partitions = Append(CtxAtCall.extra_partitions, SUPER_PARTITION_NAME)
        /\ ctx.extra_files = Append(CtxAtCall.extra_files, PAYLOAD_BIN_FILE_NAME)
        /\ IF "refine" \in Range(trace)
           THEN /\ NoDup(ctx.extract_partitions)
                /\ Range(ctx.extract_partitions)
                      \subseteq AlternateClosure(Range(entry_partitions))
           ELSE ctx.extract_partitions = entry_partitions
        /\ [ctx EXCEPT !.extra_partitions = <<>>, !.extra_files = <<>>,
                       !.extract_partitions = entry_partitions] = CtxAtCall

\* extract_image has returned with a requested_partitions that is not the one
\* it was called with
C29_Witness ==
    /\ Stopped
    /\ pc = "done"
    /\ "refine" \in Range(trace)
    /\ ctx.extract_partitions # entry_partitions
    /\ ctx.extra_partitions = <<SUPER_PARTITION_NAME>>

(***************************************************************************)
(* The requested partitions of the command line.                           *)
(***************************************************************************)
\* C30: requested_partitions holds no name twice at any point of a run, from
\* the construction of the context, --partitions and --extra-partitions
\* concatenated, onwards.
C30_NoDuplicateRequest ==
    cli.pc \in {"constructed", "extract_image", "done"} => NoDup(cli.ctx.extract_partitions)

(***************************************************************************)
(* The refinement of the requested partitions (stage 7).                   *)
(***************************************************************************)
\* a regular file of dump_dir named p, or whose prefix before the first '.' is p
HasArtefact(p) == \E f \in DOMAIN files : f = p \/ file_name_to_partition(f) = p

RECURSIVE SoughtFrom(_)
\* The names stage 7 looks for: those of S, and the first component of the
\* alternate path of every name looked for that has no artefact.
SoughtFrom(S) ==
    LET more == {AlternatePath(p)[1] :
                    p \in {q \in S : ~HasArtefact(q) /\ AlternatePath(q) # <<>>}}
    IN IF more \subseteq S THEN S ELSE SoughtFrom(S \cup more)

\* C31 as stated: stage 7 only drops names: the refined requested partitions
\* are the requested partitions of before the stage without those that have
\* no artefact in dump_dir, and so a subset of them.
C31_RefineOnlyDrops ==
    [][pc = "refine" =>
          /\ Range(ctx'.extract_partitions) \subseteq Range(ctx.extract_partitions)
          /\ Range(ctx'.extract_partitions)
                = {p \in Range(ctx.extract_partitions) : HasArtefact(p)}]_vars

\* C31 amended: stage 7 leaves in the requested partitions, each once, exactly
\* the names with an artefact in dump_dir among the names it looks for: the
\* requested partitions of before the stage and, for every name looked for
\* that has no artefact, the first component of its alternate path.
C31_RefineKeepsFound ==
    [][pc = "refine" =>
          /\ NoDup(ctx'.extract_partitions)
          /\ Range(ctx'.extract_partitions)
                = {p \in SoughtFrom(Range(ctx.extract_partitions)) : HasArtefact(p)}]_vars

\* Stage 7 dropped a requested name and put an alternate in its place.
C31_Witness ==
    /\ Completed("refine", "brotli")
    /\ \E p \in Range(entry_partitions) : p \notin Range(ctx.extract_partitions)
    /\ \E q \in Range(ctx.extract_partitions) : q \notin Range(entry_partitions)

\* C32: immediately after stage 7 every name in the requested partitions has
\* at least one regular file in dump_dir whose full name, or whose prefix
\* before the first '.', is that name.
C32_RefinedHaveArtefact ==
    Completed("refine", "brotli") =>
        \A p \in Range(ctx.extract_partitions) : HasArtefact(p)

\* Stage 7 kept a name with an artefact and dropped a requested one without.
C32_Witness ==
    /\ Completed("refine", "brotli")
    /\ ctx.extract_partitions # <<>>
    /\ \E p \in Range(entry_partitions) :
          ~HasArtefact(p) /\ p \notin Range(ctx.extract_partitions)

(***************************************************************************)
(* The probe loops.                                                        *)
(***************************************************************************)
\* C33: for every initial wanted list and every combination of probe
\* outcomes, the payload loop and the super loop each submit at most 3 helper
\* batches, and a loop that goes on after 3 batches does not exist: with 3
\* batches made the wanted list is empty.
C33_AtMostThreeBatches ==
    fn.container \in {"payload", "super"} =>
        /\ Len(fn.made) <= 3
        /\ (Len(fn.made) = 3 /\ fn.pc # "raised") => fn.wanted = <<>>

\* A loop went from odm to vendor to system and returned after its third batch.
C33_Witness ==
    /\ fn.pc = "returned"
    /\ Len(fn.made) = 3
    /\ fn.made[1].wanted = <<odm>>
    /\ fn.made[3].wanted = <<system>>

(***************************************************************************)
(* The images of stage 6.                                                  *)
(***************************************************************************)
\* C34: in stage 6 the image unpacked for one partition name is never renamed
\* onto the image of a different partition: when the stage has completed, no
\* <q>.img holds the image unpacked for a label of another partition than q,
\* and after a successful unslotted unpack of system_ext its image is at
\* system_ext.img.
C34_NoCrossRename ==
    Completed("super", "refine") =>
        \A i \in SuperBatches : \A l \in Range(batches[i].ret_success) :
            /\ \A f \in DOMAIN files :
                  (EndsWith(f, << <<"img">> >>) /\ files[f].of = l)
                     => file_name_to_partition(f) = strip_slot(l)
            /\ l = system_ext =>
                  /\ Img(system_ext) \in DOMAIN files
                  /\ files[Img(system_ext)].of = system_ext

(***************************************************************************)
(* The directories of stages 10 and 11.                                    *)
(***************************************************************************)
\* Nothing is at the directory of any of the images, and no two share one.
TargetsFree(paths) ==
    \A f \in paths :
        /\ ~Exists(files, dirs, partition_dir(f))
        /\ \A g \in paths : partition_dir(f) = partition_dir(g) => f = g

\* C35: whenever stage 10 or 11 is about to create dump_dir/<partition> for
\* an image it selects, that path does not exist yet, in the first run and in
\* a resumed one, and no two selected images have the same partition name.
C35_MkdirTargetFree ==
    /\ pc = "erofs" => TargetsFree(find_erofs_paths(ctx.extract_partitions, files))
    /\ pc = "ext4" => TargetsFree(find_ext4_paths(ctx.extract_partitions, files))

(***************************************************************************)
(* What the resume prune takes for extracted.                              *)
(***************************************************************************)
\* The prune of the re-run has just been made.
Pruned ==
    /\ resumed
    /\ err = ""
    /\ pc = "augment" \/ (pc = "done" /\ trace = <<>>)

\* The requested partitions whose directory stage 10 or 11 of the first run
\* made for a dump helper that then failed.
DumpFailed ==
    {partition_dir(r.input_id) : r \in {q \in first.failed : q.stage \in {"erofs", "ext4"}}}
        \cap Range(args.partitions)

\* C36: a partition whose directory was made by stage 10 or 11 of a run that
\* aborted because the dump helper of that partition failed is not skipped by
\* the next run: the resume prune keeps it in the requested partitions.
C36_FailedDumpNotSkipped ==
    Pruned => DumpFailed \subseteq Range(ctx.extract_partitions)

(***************************************************************************)
(* Sparse images of partitions that stage 7 adds.                          *)
(***************************************************************************)
\* C37: every image kept for a partition of the refined request has passed
\* through the sparse-raw stage: from stage 7 on, no file of dump_dir that
\* belongs to a partition of the refined request is a sparse-raw image, also
\* when the partition entered the request only at stage 7 as an alternate;
\* so no run returns with such an image left beside a stubbed directory.
C37_RefinedImagesDesparsed ==
    (\E i \in 1..Len(trace) : trace[i] = "refine") =>
        OfMagic("sparse_raw") \cap Covered(ctx.extract_partitions) = {}

(***************************************************************************)
(* The inputs of a fatal stage that aborts.                                *)
(***************************************************************************)
\* The files a fatal stage selects as its inputs.
SelectedBy(stage) ==
    CASE stage = "sparse_raw" ->
           find_sparse_raw_paths(ctx.extract_partitions \o <<SUPER_PARTITION_NAME>>, files)
      [] stage = "brotli" -> find_brotli_paths(ctx.extract_partitions, files)
      [] stage = "sparse_data" -> find_sparse_data_paths(ctx.extract_partitions, files)
      [] stage = "erofs" -> find_erofs_paths(ctx.extract_partitions, files)
      [] stage = "ext4" -> find_ext4_paths(ctx.extract_partitions, files)

\* The name under which a stage keeps an input until it removes it: stage 5
\* renames a single sparse image to its _sparsechunk.0 name.
KeptAs(stage, f) == IF stage = "sparse_raw" THEN ChunkPath(f) ELSE f

\* C38: if a fatal stage (5, 8, 9, 10 or 11) aborts, none of the files it
\* selected as inputs has been deleted: each is still in dump_dir, under the
\* name the stage keeps it by, with the content it had.
C38_AbortKeepsInputs ==
    [][(pc \in FatalStages /\ pc' = "aborted") =>
          \A f \in SelectedBy(pc) :
              /\ KeptAs(pc, f) \in DOMAIN files'
              /\ files'[KeptAs(pc, f)] = files[f]]_vars

(***************************************************************************)
(* An archive of which nothing is selected.                                *)
(***************************************************************************)
\* The filter selects no member of the archive.
NothingSelected ==
    \A namelist \in Orderings({<<n>> : n \in DOMAIN src.members}) :
        filter_extract_file_paths(ctx, namelist) = <<>>

\* C39: unpacking a ZIP source of which the filter selects no member
\* completes without error and writes nothing to dump_dir, and the pipeline
\* goes on with hook pass 1.
C39_EmptySelectionContinues ==
    [][(pc = "unpack" /\ src.kind = "zip" /\ NothingSelected) =>
          /\ pc' = "hook1"
          /\ err' = ""
          /\ files' = files
          /\ dirs' = dirs]_vars

====
